---------------------------- MODULE Spec2Model ----------------------------
(***************************************************************************)
(* Photometric stereo (aliceVision/photometricStereo): the mask-driven     *)
(* pixel selection, the observation matrices, the least-squares and robust *)
(* normal estimation, the channel-wise albedo and the result maps.         *)
(*                                                                         *)
(* Numbers.  A float is modelled by an exact rational [n, d] with d > 0,   *)
(* extended with the IEEE specials the code can produce: d = 0 and n = 1   *)
(* is +Inf, n = -1 is -Inf, n = 0 is NaN.  Rounding and the sign of zero   *)
(* are not modelled.  Mask values are in fortieths (28 stands for 0.7, 40 *)
(* for 1.0), so that the mean of a 2 x 2 block of the family's masks is a   *)
(* whole number of them.                                                   *)
(*                                                                         *)
(* Scope.  The pictures, the ambient picture and a mask file of a pose     *)
(* have the same dimensions.  downscaleImageInplace (aliceVision/image)    *)
(* reduces an image by an integer factor: every pixel of the result is the *)
(* mean of a factor x factor block of the source.                          *)
(***************************************************************************)
EXTENDS Integers, Sequences, FiniteSets, TLC

(***************************************************************************)
(* Bounds of the model.                                                    *)
(***************************************************************************)
MaxRows == 2
MaxCols == 3
MaxImages == 2
MaxVal == 2
MaxLen == 5

(***************************************************************************)
(* Rational arithmetic with IEEE specials.                                 *)
(***************************************************************************)
Abs(x) == IF x < 0 THEN -x ELSE x

Sign(x) == IF x > 0 THEN 1 ELSE IF x < 0 THEN -1 ELSE 0

MaxInt(a, b) == IF a >= b THEN a ELSE b

RECURSIVE GCD(_, _)
GCD(a, b) == IF b = 0 THEN a ELSE GCD(b, a % b)

Rat(n, d) ==
    IF d = 0 THEN [n |-> Sign(n), d |-> 0]
    ELSE LET g == GCD(Abs(n), Abs(d))
             s == Sign(d)
         IN  [n |-> s * (n \div g), d |-> s * (d \div g)]

Q(n) == [n |-> n, d |-> 1]
RZero == Q(0)
ROne == Q(1)
NaN == [n |-> 0, d |-> 0]
PInf == [n |-> 1, d |-> 0]
NInf == [n |-> -1, d |-> 0]

IsNaN(x) == x.d = 0 /\ x.n = 0
IsFinite(x) == x.d > 0

RNeg(x) == [n |-> -x.n, d |-> x.d]

RAdd(x, y) ==
    IF x.d = 0 /\ y.d = 0
    THEN (IF x.n = y.n THEN x ELSE NaN)
    ELSE IF x.d = 0 THEN x
    ELSE IF y.d = 0 THEN y
    ELSE LET g == GCD(x.d, y.d)
         IN  Rat(x.n * (y.d \div g) + y.n * (x.d \div g), (x.d \div g) * y.d)

RSub(x, y) == RAdd(x, RNeg(y))

\* The factors are cancelled crosswise before they are multiplied.
RMul(x, y) ==
    IF x.d = 0 \/ y.d = 0 THEN Rat(Sign(x.n) * Sign(y.n), 0)
    ELSE LET g1 == GCD(Abs(x.n), y.d)
             g2 == GCD(Abs(y.n), x.d)
         IN  Rat((x.n \div g1) * (y.n \div g2), (x.d \div g2) * (y.d \div g1))

RInv(y) == Rat(y.d, y.n)

RDiv(x, y) == RMul(x, RInv(y))

\* a/b < c/d for b, d > 0, by the integer parts and then the remainders.
RECURSIVE FracLess(_, _, _, _)
FracLess(a, b, c, d) ==
    LET qa == a \div b
        qc == c \div d
        ra == a % b
        rc == c % d
    IN  IF qa # qc THEN qa < qc
        ELSE IF rc = 0 THEN FALSE
        ELSE IF ra = 0 THEN TRUE
        ELSE FracLess(d, rc, b, ra)

\* x < y as the hardware compares: false as soon as one side is NaN.
RLt(x, y) ==
    /\ ~IsNaN(x)
    /\ ~IsNaN(y)
    /\ IF x.d = 0 /\ y.d = 0 THEN x.n < y.n
       ELSE IF x.d = 0 THEN x.n < 0
       ELSE IF y.d = 0 THEN y.n > 0
       ELSE FracLess(x.n, x.d, y.n, y.d)

RGt(x, y) == RLt(y, x)

RAbs(x) == [n |-> Abs(x.n), d |-> x.d]

RMaxOf(x, y) == IF RLt(x, y) THEN y ELSE x


(***************************************************************************)
(* Vectors and matrices.  An Eigen vector of size n is a sequence of       *)
(* length n (entry k of the code is element k+1); a matrix is the sequence *)
(* of its rows.  An image of R rows and C columns is a function on         *)
(* (0..R-1) \X (0..C-1) packed as [rows, cols, px].                        *)
(***************************************************************************)
\* A vector given as a function on 1..n, with its entries evaluated.
V(f) == f \o << >>

NewMat(r, c, v) == V([i \in 1..r |-> V([j \in 1..c |-> v])])

Col(m, c) == V([i \in 1..Len(m) |-> m[i][c]])

Pixels(R, C) == (0..(R-1)) \X (0..(C-1))

Img(R, C, f) == [rows |-> R, cols |-> C, px |-> f]

\* The nested loops "for j < nbCols, for i < nbRows": the pixels <<i, j>> in
\* the order the loops visit them.
ScanOrder(nbRows, nbCols) ==
    V([t \in 1..(nbRows * nbCols) |-> <<(t-1) % nbRows, (t-1) \div nbRows>>])

(***************************************************************************)
(* File names.  A string is the sequence of its characters.                *)
(***************************************************************************)
\* The characters of the model's file names, in the order of their codes.
Alphabet ==
    <<"0", "1", "2", "3", "4", "A", "M", "_",
      "a", "b", "e", "i", "k", "m", "n", "s", "t">>

Code(c) == CHOOSE n \in 1..Len(Alphabet) : Alphabet[n] = c

ToLower(c) == IF c = "A" THEN "a" ELSE IF c = "M" THEN "m" ELSE c

\* Variant: the comparison of contains, which tells the cases apart.
containsExactly(input, test) ==
    \E at \in 0..(Len(input) - Len(test)) :
       \A n \in 1..Len(test) : input[at + n] = test[n]

\* boost::algorithm::icontains(input, test)
icontains(input, test) ==
    \E at \in 0..(Len(input) - Len(test)) :
       \A n \in 1..Len(test) : ToLower(input[at + n]) = ToLower(test[n])

\* "ambiant"
Ambiant == <<"a", "m", "b", "i", "a", "n", "t">>

(***************************************************************************)
(* photometricDataIO.cpp                                                   *)
(***************************************************************************)
\* The mask threshold 0.7, in fortieths.
MaskThreshold == 28

\* loadMask when the file does not exist: a 1x1 matrix holding 1.
SentinelMask == Img(1, 1, [p \in Pixels(1, 1) |-> 40])

loadMask(exists, fileMask) == IF ~exists THEN SentinelMask ELSE fileMask

IsSentinel(mask) == mask.rows = 1 /\ mask.cols = 1

\* floor of a finite number.
Floor(x) == x.n \div x.d

\* A double stored in an unsigned char channel: its value when that is one
\* of 0..255; the conversion of any other value is undefined, and a build
\* either keeps the low eight bits or saturates.
ToUChar(v, wraps) ==
    IF v \in 0..255 THEN v
    ELSE IF wraps THEN v % 256
    ELSE IF v < 0 THEN 0 ELSE 255

\* The else branch of convertNormalMap2png, 301-303.
Encode(n, wraps) ==
    <<ToUChar(Floor(RDiv(RMul(Q(255), RAdd(n[1], ROne)), Q(2))), wraps),
      ToUChar(-Floor(RDiv(RMul(Q(255), RAdd(n[2], ROne)), Q(2))), wraps),
      ToUChar(-Floor(RMul(Q(255), n[3])), wraps)>>

\* convertNormalMap2png, 285-307.
convertNormalMap2png(normalsIm, wraps) ==
    Img(normalsIm.rows, normalsIm.cols,
        [p \in Pixels(normalsIm.rows, normalsIm.cols) |->
            LET n == normalsIm.px[p]
            IN  IF RAdd(RAdd(RMul(n[1], n[1]), RMul(n[2], n[2])),
                        RMul(n[3], n[3])) = RZero
                THEN <<0, 0, 0>>
                ELSE Encode(n, wraps)])

(***************************************************************************)
(* photometricStereo.cpp: shrink and median                                *)
(***************************************************************************)
\* Variant: the else branch without its minus sign.
shrinkEntryUnsigned(x, rho) == RMaxOf(RSub(RAbs(x), rho), RZero)

shrinkEntry(x, rho) ==
    IF RGt(x, RZero)
    THEN RMaxOf(RSub(RAbs(x), rho), RZero)
    ELSE RNeg(RMaxOf(RSub(RAbs(x), rho), RZero))

\* E(i,j) is written for every i < E.rows(), j < E.cols().
shrink(mat, rho, E) ==
    V([i \in 1..Len(E) |->
          V([j \in 1..Len(E[i]) |-> shrinkEntry(mat[i][j], rho)])])


(***************************************************************************)
(* Numbers that carry a Euclidean norm.  A column divided by its norm, a   *)
(* norm, and what is computed from them are of the form c * sqrt(q), with  *)
(* c an extended rational and q a positive rational: the pair [c, q].      *)
(* They are compared through their signed squares.                         *)
(***************************************************************************)
\* The largest r in lo..hi with r * r <= n (hi at most 46340: r * r fits).
RECURSIVE ISqrtIn(_, _, _)
ISqrtIn(n, lo, hi) ==
    IF lo >= hi THEN lo
    ELSE LET mid == (lo + hi + 1) \div 2
         IN  IF mid * mid <= n THEN ISqrtIn(n, mid, hi) ELSE ISqrtIn(n, lo, mid - 1)

ISqrt(n) == ISqrtIn(n, 0, 46340)

IsSquare(n) == ISqrt(n) * ISqrt(n) = n

\* c * sqrt(q), with the root taken when q is the square of a rational.
Surd(c, q) ==
    IF c.d = 0 \/ c.n = 0 THEN [c |-> c, q |-> ROne]
    ELSE IF IsSquare(q.n) /\ IsSquare(q.d)
    THEN [c |-> RMul(c, Rat(ISqrt(q.n), ISqrt(q.d))), q |-> ROne]
    ELSE [c |-> c, q |-> q]

S(c) == Surd(c, ROne)

SZero == S(RZero)

SIsNaN(x) == IsNaN(x.c)

SIsFinite(x) == IsFinite(x.c)

\* sqrt(r) for r >= 0 or special.
SSqrt(r) == IF r.d = 0 \/ r.n = 0 THEN S(r) ELSE Surd(ROne, r)

SInv(x) == Surd(RInv(x.c), RInv(x.q))

SMul(x, y) == Surd(RMul(x.c, y.c), RMul(x.q, y.q))

SDiv(x, y) == SMul(x, SInv(y))

\* The sum of two numbers over the same root (or of which one is 0 or special).
SAdd(x, y) ==
    IF x.c.d # 0 /\ x.c.n = 0 THEN y
    ELSE IF y.c.d # 0 /\ y.c.n = 0 THEN x
    ELSE Surd(RAdd(x.c, y.c), IF x.c.d = 0 THEN y.q ELSE x.q)

\* sign(x) * x^2
SSq(x) ==
    IF x.c.d = 0 THEN x.c
    ELSE RMul(RMul(Q(Sign(x.c.n)), RMul(x.c, x.c)), x.q)

\* x < y: over the same root by the factors, else by the signs, and for
\* equal signs by the signed squares.
SLt(x, y) ==
    /\ ~SIsNaN(x)
    /\ ~SIsNaN(y)
    /\ IF x.q = y.q THEN RLt(x.c, y.c)
       ELSE IF Sign(x.c.n) # Sign(y.c.n) THEN Sign(x.c.n) < Sign(y.c.n)
       ELSE RLt(SSq(x), SSq(y))

SEq(x, y) ==
    /\ ~SIsNaN(x)
    /\ ~SIsNaN(y)
    /\ IF x.q = y.q THEN x.c = y.c ELSE SSq(x) = SSq(y)

\* std::sort of a short range: insertion of each element into the sorted
\* prefix before it.
RECURSIVE InsertSorted(_, _)
InsertSorted(sorted, x) ==
    IF sorted = << >> THEN <<x>>
    ELSE IF SLt(x, sorted[Len(sorted)])
         THEN Append(InsertSorted(SubSeq(sorted, 1, Len(sorted) - 1), x),
                     sorted[Len(sorted)])
         ELSE Append(sorted, x)

RECURSIVE SortFrom(_, _, _)
SortFrom(d, t, sorted) ==
    IF t > Len(d) THEN sorted
    ELSE SortFrom(d, t + 1, InsertSorted(sorted, d[t]))

\* The comparison of a NaN is false both ways, which std::sort does not
\* allow: where the NaNs of the range end up is not defined.  nanPos is the
\* place the build gives them among the sorted other values.
StdSort(d, nanPos) ==
    LET others == SelectSeq(d, LAMBDA x : ~SIsNaN(x))
        nans == SelectSeq(d, SIsNaN)
        s == SortFrom(others, 1, << >>)
        at == IF nanPos > Len(s) THEN Len(s) ELSE nanPos
    IN  SubSeq(s, 1, at) \o nans \o SubSeq(s, at + 1, Len(s))

medianAt(d, nanPos) ==
    LET aux == StdSort(d, nanPos)
        size == Len(aux)
        middle == size \div 2
    IN  IF size % 2 = 0
        THEN SAdd(aux[((size - 1) \div 2) + 1], aux[((size + 1) \div 2) + 1])
        ELSE aux[middle + 1]

median(d) == medianAt(d, 0)

(***************************************************************************)
(* Eigen operations used by the solver.                                    *)
(***************************************************************************)
RECURSIVE RSum(_, _)
RSum(v, t) == IF t > Len(v) THEN RZero ELSE RAdd(v[t], RSum(v, t + 1))

Dot(u, v) == RSum(V([t \in 1..Len(u) |-> RMul(u[t], v[t])]), 1)

SquaredNorm(v) == Dot(v, v)

\* A * B
MatMul(A, B) ==
    V([i \in 1..Len(A) |-> V([j \in 1..Len(B[1]) |-> Dot(A[i], Col(B, j))])])

MatAdd(A, B) ==
    V([i \in 1..Len(A) |-> V([j \in 1..Len(A[i]) |-> RAdd(A[i][j], B[i][j])])])

MatSub(A, B) ==
    V([i \in 1..Len(A) |-> V([j \in 1..Len(A[i]) |-> RSub(A[i][j], B[i][j])])])

MatScale(A, c) ==
    V([i \in 1..Len(A) |-> V([j \in 1..Len(A[i]) |-> RMul(A[i][j], c)])])

MatDiv(A, c) ==
    V([i \in 1..Len(A) |-> V([j \in 1..Len(A[i]) |-> RDiv(A[i][j], c)])])

\* The entries of a matrix, as a sequence (row by row).
RECURSIVE Flatten(_, _)
Flatten(A, i) == IF i > Len(A) THEN << >> ELSE A[i] \o Flatten(A, i + 1)

\* lightMat.bdcSvd(ComputeThinU | ComputeThinV).solve(rhs): the least-squares
\* solution of minimal norm.  The light matrices of the model have mutually
\* orthogonal columns, for which the solution is, column by column of
\* lightMat, <column, rhs> / <column, column>, and 0 for a zero column.
bdcSvdSolve(L, rhs) ==
    LET dim == Len(L[1])
        nc == Len(rhs[1])
    IN  V([d \in 1..dim |->
              LET cold == Col(L, d)
                  den == SquaredNorm(cold)
              IN  V([c \in 1..nc |->
                        LET num == Dot(cold, Col(rhs, c))
                        IN  IF den.n = 0 THEN num ELSE RDiv(num, den)])])

\* maxCoeff() of a non-empty range of values: with a NaN among them the
\* result is the NaN or the largest of the other values, as the reduction
\* happens to meet them.
RMaxOfAll(v) ==
    v[CHOOSE i \in 1..Len(v) : \A j \in 1..Len(v) : ~RLt(v[i], v[j])]

SMaxOfAll(v) ==
    v[CHOOSE i \in 1..Len(v) : \A j \in 1..Len(v) : ~SLt(v[i], v[j])]

maxCoeffOutcomes(v) ==
    LET nans == SelectSeq(v, IsNaN)
        others == SelectSeq(v, LAMBDA x : ~IsNaN(x))
    IN  (IF nans = << >> THEN {} ELSE {NaN})
        \cup (IF others = << >> THEN {} ELSE {RMaxOfAll(others)})

SmaxCoeffOutcomes(v) ==
    LET nans == SelectSeq(v, SIsNaN)
        others == SelectSeq(v, LAMBDA x : ~SIsNaN(x))
    IN  (IF nans = << >> THEN {} ELSE {S(NaN)})
        \cup (IF others = << >> THEN {} ELSE {SMaxOfAll(others)})

\* M.col(i) / M.col(i).norm()
NormalizedCol(M, i) ==
    LET col == Col(M, i)
        norm == SSqrt(SquaredNorm(col))
    IN  V([d \in 1..Len(col) |-> SDiv(S(col[d]), norm)])

\* M.col(i).norm()
ColNorm(M, i) == SSqrt(SquaredNorm(Col(M, i)))

\* lightMat * normalsVect.col(idx): the entries of one column share their root.
Shading(L, ncol) ==
    LET roots == {ncol[d].q : d \in {e \in 1..Len(ncol) : ncol[e].c.d # 0 /\ ncol[e].c.n # 0}}
        q == IF roots = {} THEN ROne ELSE CHOOSE r \in roots : TRUE
    IN  V([i \in 1..Len(L) |->
              Surd(RSum(V([d \in 1..Len(ncol) |-> RMul(L[i][d], ncol[d].c)]), 1), q)])

(***************************************************************************)
(* aliceVision/image: downscaleImageInplace                                *)
(***************************************************************************)
\* The pixels of the source that pixel p of the reduced image stands for.
BlockOf(p, f) ==
    V([t \in 1..(f * f) |->
          <<f * p[1] + ((t - 1) % f), f * p[2] + ((t - 1) \div f)>>])

RECURSIVE IntSum(_, _)
IntSum(values, t) ==
    IF t > Len(values) THEN 0 ELSE values[t] + IntSum(values, t + 1)

\* downscaleImageInplace of an Image<float>: the values of the masks are
\* whole fortieths, and so is the mean of four of them.
downscaleImageInplaceFloat(inout, f) ==
    Img(inout.rows \div f, inout.cols \div f,
        [p \in Pixels(inout.rows \div f, inout.cols \div f) |->
            IntSum(V([t \in 1..(f * f) |-> inout.px[BlockOf(p, f)[t]]]), 1)
                \div (f * f)])

\* downscaleImageInplace of an Image<RGBfColor>.
downscaleImageInplaceRGBf(inout, f) ==
    Img(inout.rows \div f, inout.cols \div f,
        [p \in Pixels(inout.rows \div f, inout.cols \div f) |->
            V([ch \in 1..3 |->
                  RDiv(RSum(V([t \in 1..(f * f) |->
                                  inout.px[BlockOf(p, f)[t]][ch]]), 1),
                       Q(f * f))])])

RECURSIVE getIndMaskLoop(_, _, _, _)
getIndMaskLoop(mask, order, t, indexes) ==
    IF t > Len(order) THEN indexes
    ELSE LET i == order[t][1]
             j == order[t][2]
         IN  IF mask.px[<<i, j>>] > MaskThreshold
             THEN getIndMaskLoop(mask, order, t + 1,
                                 Append(indexes, j * mask.rows + i))
             ELSE getIndMaskLoop(mask, order, t + 1, indexes)

\* Variant: the loops exchanged, "for i < nbRows, for j < nbCols".
ScanByRows(nbRows, nbCols) ==
    V([t \in 1..(nbRows * nbCols) |-> <<(t-1) \div nbCols, (t-1) % nbCols>>])

\* Variant: getIndMask with the loops exchanged.
getIndMaskByRows(mask, indexes) ==
    getIndMaskLoop(mask, ScanByRows(mask.rows, mask.cols), 1, indexes)

getIndMask(mask, indexes) ==
    getIndMaskLoop(mask, ScanOrder(mask.rows, mask.cols), 1, indexes)

\* image2PsMatrix: the columns written, in the order of the running index;
\* column k of the result is what the code stores at imageOut(., k-1).
RECURSIVE image2PsMatrixLoop(_, _, _, _, _)
image2PsMatrixLoop(imageIn, mask, order, t, written) ==
    IF t > Len(order) THEN written
    ELSE LET p == order[t]
             hasMask == ~IsSentinel(mask)
         IN  IF (~hasMask) \/ mask.px[p] > MaskThreshold
             THEN image2PsMatrixLoop(imageIn, mask, order, t + 1,
                                     Append(written, imageIn.px[p]))
             ELSE image2PsMatrixLoop(imageIn, mask, order, t + 1, written)

image2PsMatrix(imageIn, mask) ==
    image2PsMatrixLoop(imageIn, mask, ScanOrder(imageIn.rows, imageIn.cols),
                       1, << >>)

\* intensityScaling: every channel of every pixel divided by the light's
\* intensity of that channel.
intensityScaling(intensities, imageToScale) ==
    [imageToScale EXCEPT !.px =
        [p \in DOMAIN imageToScale.px |->
            V([ch \in 1..3 |-> RDiv(imageToScale.px[p][ch], intensities[ch])])]]

\* Variant: pixel (i, j) taken from column i*nbCols + j.
reshapeInImageByRows(matrixIn, nbRows, nbCols) ==
    Img(nbRows, nbCols,
        [p \in Pixels(nbRows, nbCols) |->
            V([ch \in 1..3 |-> matrixIn[ch][p[1] * nbCols + p[2] + 1]])])

\* reshapeInImage: pixel (i, j) takes rows 0..2 of column j*nbRows + i.
reshapeInImage(matrixIn, nbRows, nbCols) ==
    Img(nbRows, nbCols,
        [p \in Pixels(nbRows, nbCols) |->
            V([ch \in 1..3 |-> matrixIn[ch][p[2] * nbRows + p[1] + 1]])])

(***************************************************************************)
(* The state.                                                              *)
(*   maskFile      the mask file of the pose: whether it exists, its image *)
(*   pictures      the decoded files of imageList, until the read loop has *)
(*                 consumed them                                           *)
(*   imageList     the file stems of the pictures of the solve             *)
(*   nbImages      imageList.size()                                        *)
(*   ambiant       whether pathToAmbiant names an "ambiant" picture, and   *)
(*                 that picture                                            *)
(*   arg, res      the arguments and the result of a function called on    *)
(*                 its own (getIndMask, image2PsMatrix, shrink, median)    *)
(*   cout          what the solve has written to std::cout, line by line   *)
(*   viewsPerPoseId  the poses of the multi-pose entry point, in the order *)
(*                 of the map: the pictures of each, its "ambiant" view    *)
(*                 and its mask file                                       *)
(*   lightData     the light folder: whether light_intensities.txt opens   *)
(*                 and how many lines it holds                             *)
(*   posesIt       the place of the pose in progress (0 outside the loop)  *)
(*   pathToAmbiant the view the string names, <<pose, place>> (<<0, 0>>   *)
(*                 for the empty string)                                   *)
(*   outputFiles   the results writePSResults and writeImage have stored   *)
(* The other variables are the parameters and locals of                    *)
(* photometricStereo(imageList, intList, lightMat, mask, ...), under the   *)
(* names of the code.                                                      *)
(***************************************************************************)
VARIABLES pc, maskFile, mask, pictures, nbImages, intList, lightMat, ambiant,
          isRobust, hasMask, indexes, maskSize, pictRows, pictCols,
          imMat, imMat_gray, normalsVect, albedoVect, M_channel, E, W, k,
          normals, albedo, arg, res, cout, downscale, imageList,
          viewsPerPoseId, removeAmbiant, lightData, posesIt, pathToAmbiant,
          outputFiles

inputs == <<maskFile, nbImages, intList, lightMat, ambiant, isRobust,
            downscale, imageList>>
selection == <<hasMask, indexes, maskSize, pictRows, pictCols>>
observations == <<imMat, imMat_gray>>
estimates == <<normalsVect, albedoVect, M_channel>>
refiner == <<E, W, k>>
outputs == <<normals, albedo>>
calls == <<arg, res>>
console == <<cout>>
batch == <<viewsPerPoseId, removeAmbiant, lightData, posesIt, pathToAmbiant,
           outputFiles>>
vars == <<pc, mask, pictures, inputs, selection, observations, estimates,
          refiner, outputs, calls, console, batch>>

\* Constants of the robust refinement.
mu == Rat(1, 10)
max_iterations == 1000
epsilon == Rat(1, 1000)
min_iterations == 10

\* The luminance weights.
WeightR == Rat(2126, 10000)
WeightG == Rat(7152, 10000)
WeightB == Rat(722, 10000)

EmptyImage == Img(0, 0, << >>)

\* The lines the code writes to std::cout: loadMask for a missing file, the
\* solve before it reads an ambient picture (followed by the path), and the
\* robust loop when it breaks (preceded by k).
MsgNoMask == "Can not open mask.png. Every pixel will be used !"
MsgAmbiant == "Removing ambiant light"
MsgPathToAmbiant == "pathToAmbiant"
MsgConvergence == "Convergence"

\* An entry of a matrix that was allocated and not written yet.  The read
\* loop writes every entry of imMat and imMat_gray before one is read.
Uninit == NaN

(***************************************************************************)
(* The inputs of the model.                                                *)
(***************************************************************************)
Shapes == {<<MaxRows, MaxCols>>}

LinearIndex(p, R) == p[2] * R + p[1]

\* The value of a lit pixel: 1..MaxVal, by its place in the picture.
LitValue(p, R) == 1 + (LinearIndex(p, R) % MaxVal)

Gray(v) == <<Q(v), Q(v), Q(v)>>
Red(v) == <<Q(v), Q(0), Q(0)>>

\* A picture of R x C pixels: the pixels of black are black, the others lit,
\* gray or red.
Scene(R, C, black, tint) ==
    Img(R, C, [p \in Pixels(R, C) |->
                  IF LinearIndex(p, R) \in black THEN Gray(0)
                  ELSE IF tint = "red" THEN Red(LitValue(p, R))
                  ELSE Gray(LitValue(p, R))])

\* An ambient picture: the same gray everywhere, black included.
AmbientLevels == {0, 1, MaxVal + 1}

Uniform(R, C, level) == Img(R, C, [p \in Pixels(R, C) |-> Gray(level)])

\* A mask file of R x C pixels: 1.0 where selected, exactly 0.7 elsewhere.
MaskImage(R, C, excluded) ==
    Img(R, C, [p \in Pixels(R, C) |->
                  IF LinearIndex(p, R) \in excluded THEN MaskThreshold ELSE 40])

\* The pixels a mask file excludes: the first, all but the first, all.
ExcludedSets(R, C) == {{0}, 1..(R * C - 1), 0..(R * C - 1)}

\* The downscale factors of a solve.
Downscales == {1, 2}

\* The black pixels of a scene: none, the first, or the second.
BlackSets == {{}, {0}, {1}}

\* Light matrices with mutually orthogonal columns: picture i is lit along
\* one axis, 1, 2, 3 in turn (of 3) or 1, 5, 9 in turn (of 9).
UnitRow(dim, axis) == V([d \in 1..dim |-> IF d = axis THEN ROne ELSE RZero])

LightRig(n, dim) ==
    V([i \in 1..n |-> UnitRow(dim, 1 + (((i - 1) * ((dim - 1) \div 2)) % dim))])

\* <<dimension, number of pictures>>
Lightings == {<<3, n>> : n \in 1..MaxImages} \cup {<<9, MaxImages>>}

\* The intensity file holds one line less than, as many lines as, or one
\* line more than there are pictures: loadLightIntensities keeps them all.
SampleCounts(n) == {n - 1, n, n + 1}

\* Gray scenes are taken with any number of pictures, red ones with one.
Tints(n) == IF n = 1 THEN {"gray", "red"} ELSE {"gray"}

(***************************************************************************)
(* Init: the entry point has listed the pictures and loaded the light      *)
(* data; its mask is still the empty image it declared.                    *)
(***************************************************************************)
NoCall == [f |-> "none"]

SolveIdle ==
    /\ hasMask = FALSE /\ indexes = << >> /\ maskSize = 0
    /\ pictRows = 0 /\ pictCols = 0
    /\ imMat = << >> /\ imMat_gray = << >>
    /\ normalsVect = << >> /\ albedoVect = << >> /\ M_channel = << >>
    /\ E = << >> /\ W = << >> /\ k = 0
    /\ normals = EmptyImage /\ albedo = EmptyImage

\* The stems of the lit pictures: "01", "02", ...
LitStem(i) == <<"0", Alphabet[i + 1]>>

\* The empty string in pathToAmbiant.
NoPath == <<0, 0>>

\* The variables of the multi-pose entry point, outside of it.
NoLightData == [opens |-> FALSE, lines |-> 0]

BatchIdle ==
    /\ viewsPerPoseId = << >> /\ removeAmbiant = FALSE
    /\ lightData = NoLightData
    /\ posesIt = 0 /\ pathToAmbiant = NoPath /\ outputFiles = << >>

\* A flat Lambertian patch of albedo 1/2 facing the camera, normal
\* (0, 0, 1), under four lights of shading 1: picture i holds the albedo
\* times the intensity i of its light at every pixel.
PatchAlbedo == Rat(1, 2)

FourLights ==
    <<<<Q(1), Q(1), Q(1)>>, <<Q(1), Q(-1), Q(1)>>,
      <<Q(-1), Q(1), Q(1)>>, <<Q(-1), Q(-1), Q(1)>>>>

Patch(R, C, v) == Img(R, C, [p \in Pixels(R, C) |-> <<v, v, v>>])

\* Four pictures of one value each under the four lights, without a mask.
FourLightScene(values, intensities, reference) ==
    /\ downscale = 1
    /\ maskFile = [exists |-> FALSE, img |-> EmptyImage]
    /\ pictures = V([i \in 1..4 |-> Patch(MaxRows, MaxCols, values[i])])
    /\ nbImages = 4
    /\ imageList = V([i \in 1..4 |-> LitStem(i)])
    /\ intList = V([i \in 1..4 |-> Gray(intensities[i])])
    /\ lightMat = FourLights
    /\ ambiant = reference

FlatPatch ==
    FourLightScene([i \in 1..4 |-> RMul(PatchAlbedo, Q(i))], <<1, 2, 3, 4>>,
                   [present |-> FALSE, img |-> EmptyImage])

\* A patch that is bright in the first and the last picture and in shadow
\* in the two others, with an ambient picture brighter than the shadow:
\* the observations (1, -3, -3, 1) fit no normal.
ShadowedPatch ==
    FourLightScene(<<Q(4), Q(0), Q(0), Q(4)>>, <<1, 1, 1, 1>>,
                   [present |-> TRUE, img |-> Uniform(MaxRows, MaxCols, 3)])

Init ==
    /\ pc = "loadMask"
    /\ \/ FlatPatch
       \/ ShadowedPatch
       \/ \E shape \in Shapes, lighting \in Lightings :
          \E tint \in Tints(lighting[2]) :
          LET R == shape[1]
              C == shape[2]
              n == lighting[2]
          IN  /\ \E f \in Downscales :
                    /\ downscale = f
                    /\ \/ maskFile = [exists |-> FALSE, img |-> EmptyImage]
                       \/ \E ex \in ExcludedSets(R, C) :
                             maskFile = [exists |-> TRUE,
                                         img |-> MaskImage(R, C, ex)]
              /\ \E black \in BlackSets :
                    pictures = V([i \in 1..n |-> Scene(R, C, black, tint)])
              /\ nbImages = n
              /\ imageList = V([i \in 1..n |-> LitStem(i)])
              /\ \E samples \in SampleCounts(n) :
                    intList = V([i \in 1..samples |-> Gray(i)])
              /\ lightMat = LightRig(n, lighting[1])
              /\ \/ ambiant = [present |-> FALSE, img |-> EmptyImage]
                 \/ \E level \in AmbientLevels :
                       ambiant = [present |-> TRUE, img |-> Uniform(R, C, level)]
    /\ isRobust \in BOOLEAN
    /\ mask = EmptyImage
    /\ SolveIdle
    /\ BatchIdle
    /\ arg = NoCall /\ res = NoCall
    /\ cout = << >>

(***************************************************************************)
(* The entry point loads the mask (photometricStereo.cpp 48-51, 121-124).  *)
(***************************************************************************)
LoadMask ==
    /\ pc = "loadMask"
    /\ mask' = loadMask(maskFile.exists, maskFile.img)
    /\ cout' = IF maskFile.exists THEN cout ELSE Append(cout, MsgNoMask)
    /\ pc' = "select"
    /\ UNCHANGED <<pictures, inputs, selection, observations, estimates,
                   refiner, outputs, calls, batch>>

(***************************************************************************)
(* photometricStereo(imageList, intList, lightMat, mask, ...), 139-177:    *)
(* the active pixels and the allocation of the observation matrices.       *)
(***************************************************************************)
\* readImage followed by "if(downscale > 1) downscaleImageInplace(...)".
Decoded(file) ==
    IF downscale > 1 THEN downscaleImageInplaceRGBf(file, downscale) ELSE file

SelectPixels ==
    /\ pc = "select"
    /\ LET has == ~((mask.rows = 1) /\ (mask.cols = 1))
           reduced == IF has /\ downscale > 1
                      THEN downscaleImageInplaceFloat(mask, downscale)
                      ELSE mask
           ind == IF has THEN getIndMask(reduced, << >>) ELSE << >>
           rows == IF has THEN reduced.rows ELSE Decoded(pictures[1]).rows
           cols == IF has THEN reduced.cols ELSE Decoded(pictures[1]).cols
           size == IF has THEN Len(ind) ELSE rows * cols
       IN  /\ mask' = reduced
           /\ hasMask' = has
           /\ indexes' = ind
           /\ maskSize' = size
           /\ pictRows' = rows
           /\ pictCols' = cols
           /\ imMat' = NewMat(3 * nbImages, size, Uninit)
           /\ imMat_gray' = NewMat(nbImages, size, Uninit)
    /\ pc' = "read"
    /\ UNCHANGED <<pictures, inputs, estimates, refiner, outputs, calls, console,
                   batch>>

\* Variant: imageAmbiant - imageFloat.
SubtractImageReversed(img, amb) ==
    [img EXCEPT !.px = [p \in DOMAIN img.px |->
                           V([ch \in 1..3 |-> RSub(amb.px[p][ch], img.px[p][ch])])]]

\* imageFloat - imageAmbiant
SubtractImage(img, amb) ==
    [img EXCEPT !.px = [p \in DOMAIN img.px |->
                           V([ch \in 1..3 |-> RSub(img.px[p][ch], amb.px[p][ch])])]]

\* Variant: the picture divided by the intensity before the ambient picture
\* is subtracted.
CurrentPictureScaledFirst(i) ==
    LET read == intensityScaling(intList[i], Decoded(pictures[i]))
        lit == IF ambiant.present
               THEN SubtractImage(read, Decoded(ambiant.img))
               ELSE read
        written == image2PsMatrix(lit, mask)
    IN  V([ch \in 1..3 |->
              V([c \in 1..maskSize |->
                    IF c <= Len(written) THEN written[c][ch] ELSE Uninit])])

\* One pass of the read loop (195-216) for picture i: the 3 x maskSize
\* block currentPicture.
CurrentPicture(i) ==
    LET read == Decoded(pictures[i])
        lit == IF ambiant.present
               THEN SubtractImage(read, Decoded(ambiant.img))
               ELSE read
        scaled == intensityScaling(intList[i], lit)
        written == image2PsMatrix(scaled, mask)
    IN  V([ch \in 1..3 |->
              V([c \in 1..maskSize |->
                    IF c <= Len(written) THEN written[c][ch] ELSE Uninit])])

\* Line 219.
GrayRow(block) ==
    V([c \in 1..Len(block[1]) |->
          RAdd(RAdd(RMul(block[1][c], WeightR), RMul(block[2][c], WeightG)),
               RMul(block[3][c], WeightB))])

\* image2PsMatrix takes its own decision about the mask (IO 228) and stores
\* a column for every pixel it keeps: some picture gets more columns than
\* the maskSize columns of currentPicture.
WritesOutside ==
    \E i \in 1..nbImages :
       Len(image2PsMatrix(Decoded(pictures[i]), mask)) > maskSize

\* A write outside currentPicture is outside Eigen's contract: a build
\* with assertions stops at it; another writes past the block and goes on
\* (ReadPictures).
ReadPicturesOutside ==
    /\ pc = "read"
    /\ Len(intList) >= nbImages
    /\ WritesOutside
    /\ cout' = IF ambiant.present
               THEN cout \o <<MsgAmbiant, MsgPathToAmbiant>>
               ELSE cout
    /\ pictures' = << >>
    /\ pc' = "aborted"
    /\ UNCHANGED <<mask, inputs, selection, observations, estimates, refiner,
                   outputs, calls, batch>>

\* The read loop, 180-220.
ReadPictures ==
    /\ pc = "read"
    /\ Len(intList) >= nbImages
    /\ \E blocks \in {V([i \in 1..nbImages |-> CurrentPicture(i)])} :
           /\ imMat' = V([r \in 1..(3 * nbImages) |->
                             blocks[((r - 1) \div 3) + 1][((r - 1) % 3) + 1]])
           /\ imMat_gray' = V([i \in 1..nbImages |-> GrayRow(blocks[i])])
    /\ cout' = IF ambiant.present
               THEN cout \o <<MsgAmbiant, MsgPathToAmbiant>>
               ELSE cout
    /\ pc' = "normalize"
    /\ UNCHANGED <<mask, pictures, inputs, selection, estimates, refiner,
                   outputs, calls, batch>>

\* The read loop when intList is shorter than imageList: after the message
\* of the ambient picture and the pictures that have an entry, line 212
\* calls intList.at(i) beyond the end, which throws std::out_of_range; the
\* solve is left with the exception.
ReadPicturesThrows ==
    /\ pc = "read"
    /\ Len(intList) < nbImages
    /\ cout' = IF ambiant.present
               THEN cout \o <<MsgAmbiant, MsgPathToAmbiant>>
               ELSE cout
    /\ pictures' = << >>
    /\ pc' = "out_of_range"
    /\ UNCHANGED <<mask, inputs, selection, observations, estimates, refiner,
                   outputs, calls, batch>>

\* 222-223.  maxCoeff() of a matrix without entries is outside Eigen's
\* contract: a build with assertions stops there, another reads no valid
\* entry and goes on with the (empty) matrix.  The pictures decoded by the
\* read loop are gone.
NormalizeObservations ==
    /\ pc = "normalize"
    /\ IF maskSize = 0
       THEN \E asserts \in BOOLEAN :
               /\ pc' = IF asserts THEN "aborted" ELSE "normals"
               /\ UNCHANGED observations
       ELSE \E mx \in maxCoeffOutcomes(Flatten(imMat, 1)),
               mg \in maxCoeffOutcomes(Flatten(imMat_gray, 1)) :
               /\ imMat' = MatDiv(imMat, mx)
               /\ imMat_gray' = MatDiv(imMat_gray, mg)
               /\ pc' = "normals"
    /\ pictures' = << >>
    /\ UNCHANGED <<mask, inputs, selection, estimates, refiner, outputs, calls, console,
                   batch>>

\* currentIdx of the loops over the active pixels (offset by one here).
CurrentIdx(i) == IF hasMask THEN indexes[i] ELSE i - 1

\* vect.col(currentIdx) = column(i), for i = 0..maskSize-1 in turn: the
\* last write of a column is the one that stays.
ScatterCols(vect, column) ==
    V([d \in 1..Len(vect) |->
          V([c \in 1..Len(vect[d]) |->
                LET from == {i \in 1..maskSize : CurrentIdx(i) = c - 1}
                IN  IF from = {} THEN vect[d][c]
                    ELSE column[CHOOSE i \in from : \A j \in from : j <= i][d]])])

\* 225-244: the least-squares normals.
EstimateNormals ==
    /\ pc = "normals"
    /\ \E M \in {bdcSvdSolve(lightMat, imMat_gray)} :
          LET zeros == NewMat(Len(lightMat[1]), pictRows * pictCols, SZero)
              column == V([i \in 1..maskSize |-> NormalizedCol(M, i)])
          IN  /\ M_channel' = M
              /\ normalsVect' = ScatterCols(zeros, column)
              /\ albedoVect' = NewMat(3, pictRows * pictCols, SZero)
    /\ pc' = IF isRobust THEN "robust" ELSE "albedo"
    /\ UNCHANGED <<mask, pictures, inputs, selection, observations, refiner,
                   outputs, calls, console, batch>>

\* pixelValues_channel: the rows of channel ch of imMat (305-309, 334-338).
PixelValuesChannel(ch) == V([i \in 1..nbImages |-> imMat[ch + 3 * (i - 1)]])

\* 330-355: the channel-wise albedo of the non-robust path.
Albedo ==
    /\ pc = "albedo"
    /\ \E Mch \in {V([ch \in 1..3 |->
                          bdcSvdSolve(lightMat, PixelValuesChannel(ch))])} :
          LET column == V([i \in 1..maskSize |->
                             V([ch \in 1..3 |-> ColNorm(Mch[ch], i)])])
          IN  /\ albedoVect' = ScatterCols(albedoVect, column)
              /\ M_channel' = Mch[3]
    /\ pc' = "assemble"
    /\ UNCHANGED <<mask, pictures, inputs, selection, observations,
                   normalsVect, refiner, outputs, calls, console, batch>>

\* 248-257: E and W before the first iteration.
RobustInit ==
    /\ pc = "robust"
    /\ E' = MatSub(MatMul(lightMat, M_channel), imMat_gray)
    /\ W' = NewMat(nbImages, maskSize, RZero)
    /\ k' = 0
    /\ pc' = "iterate"
    /\ UNCHANGED <<mask, pictures, inputs, selection, observations, estimates,
                   outputs, calls, console, batch>>

\* ecart.norm() / M_channel.norm() < epsilon
\* When ecart is exactly zero the quotient is 0 / norm: NaN for a norm that
\* is NaN or 0, and 0 otherwise; the norm itself is then not needed.
EcartSmall(M_kminus1, M) ==
    LET ecart == Flatten(MatSub(M_kminus1, M), 1)
        entries == Flatten(M, 1)
        ecart_relatif ==
            IF \A t \in 1..Len(ecart) : ecart[t] = RZero
            THEN IF \/ \E t \in 1..Len(entries) : IsNaN(entries[t])
                    \/ \A t \in 1..Len(entries) : entries[t] = RZero
                 THEN S(NaN)
                 ELSE SZero
            ELSE SDiv(SSqrt(SquaredNorm(ecart)), SSqrt(SquaredNorm(entries)))
    IN  SLt(ecart_relatif, S(epsilon))

\* Variant: a loop without the iteration budget.
LoopGuardUnbounded(kk) == kk >= 0

\* The loop condition of line 259.
LoopGuard(kk) == kk < max_iterations

\* Variant: the test of line 279 without its "k > 10".
ConvergedAtOnce(kk, small) == small

\* The test of line 279.
Converged(kk, small) == kk > min_iterations /\ small

\* Variant: a pass that updates W before E, from the E of the pass before.
RobustIterWFirst ==
    /\ pc = "iterate"
    /\ LoopGuard(k)
    /\ \E M_kminus1 \in {M_channel} :
       \E M \in {bdcSvdSolve(lightMat,
                              MatSub(MatAdd(imMat_gray, E), MatDiv(W, mu)))} :
       \E LM \in {MatMul(lightMat, M)} :
           /\ M_channel' = M
           /\ W' = MatAdd(W, MatScale(MatSub(MatSub(LM, imMat_gray), E), mu))
           /\ E' = shrink(MatAdd(MatSub(LM, imMat_gray), MatDiv(W, mu)),
                          RDiv(ROne, mu), E)
           /\ IF Converged(k, EcartSmall(M_kminus1, M))
              THEN /\ k' = k
                   /\ cout' = cout \o <<ToString(k), MsgConvergence>>
                   /\ pc' = "refined"
              ELSE /\ k' = k + 1
                   /\ cout' = cout
                   /\ pc' = IF LoopGuard(k + 1) THEN "iterate" ELSE "refined"
    /\ UNCHANGED <<mask, pictures, inputs, selection, observations,
                   normalsVect, albedoVect, outputs, calls, batch>>

\* One pass of the loop 259-285.
RobustIter ==
    /\ pc = "iterate"
    /\ LoopGuard(k)
    /\ \E M_kminus1 \in {M_channel} :
       \E M \in {bdcSvdSolve(lightMat,
                              MatSub(MatAdd(imMat_gray, E), MatDiv(W, mu)))} :
       \E LM \in {MatMul(lightMat, M)} :
       \E Enew \in {shrink(MatAdd(MatSub(LM, imMat_gray), MatDiv(W, mu)),
                            RDiv(ROne, mu), E)} :
           /\ M_channel' = M
           /\ E' = Enew
           /\ W' = MatAdd(W, MatScale(MatSub(MatSub(LM, imMat_gray), Enew), mu))
           /\ IF Converged(k, EcartSmall(M_kminus1, M))
              THEN /\ k' = k
                   /\ cout' = cout \o <<ToString(k), MsgConvergence>>
                   /\ pc' = "refined"
              ELSE /\ k' = k + 1
                   /\ cout' = cout
                   /\ pc' = IF LoopGuard(k + 1) THEN "iterate" ELSE "refined"
    /\ UNCHANGED <<mask, pictures, inputs, selection, observations,
                   normalsVect, albedoVect, outputs, calls, batch>>

\* currentI.cwiseProduct(currentShading.cwiseInverse())
Ratios(currentI, currentShading) ==
    V([i \in 1..Len(currentI) |-> SMul(S(currentI[i]), SInv(currentShading[i]))])

\* 287-326: the normals of the refined M and the albedo by medians.
RobustFinish ==
    /\ pc = "refined"
    /\ \E nvect \in {ScatterCols(normalsVect,
                                  V([i \in 1..maskSize |->
                                        NormalizedCol(M_channel, i)]))} :
       \E nanPos \in 0..nbImages :
          LET acol == V([i \in 1..maskSize |->
                          V([ch \in 1..3 |->
                              medianAt(Ratios(Col(PixelValuesChannel(ch), i),
                                              Shading(lightMat,
                                                      Col(nvect, CurrentIdx(i) + 1))),
                                       nanPos)])])
          IN  /\ normalsVect' = nvect
              /\ albedoVect' = ScatterCols(albedoVect, acol)
    /\ pc' = "assemble"
    /\ UNCHANGED <<mask, pictures, inputs, selection, observations, M_channel,
                   refiner, outputs, calls, console, batch>>

\* 357-364: the albedo divided by its maximum, and the two maps.
Assemble ==
    /\ pc = "assemble"
    /\ \E mx \in SmaxCoeffOutcomes(Flatten(albedoVect, 1)) :
       \E normalized \in {V([ch \in 1..3 |->
                                 V([c \in 1..Len(albedoVect[ch]) |->
                                       SDiv(albedoVect[ch][c], mx)])])} :
          /\ albedoVect' = normalized
          /\ albedo' = reshapeInImage(normalized, pictRows, pictCols)
    /\ normals' = reshapeInImage(normalsVect, pictRows, pictCols)
    /\ pc' = "done"
    /\ UNCHANGED <<mask, pictures, inputs, selection, observations,
                   normalsVect, M_channel, refiner, calls, console, batch>>

Next ==
    \/ LoadMask
    \/ SelectPixels
    \/ ReadPictures
    \/ ReadPicturesThrows
    \/ ReadPicturesOutside
    \/ NormalizeObservations
    \/ EstimateNormals
    \/ Albedo
    \/ RobustInit
    \/ RobustIter
    \/ RobustFinish
    \/ Assemble

Spec == Init /\ [][Next]_vars

(***************************************************************************)
(* photometricStereo(sfmData, lightData, maskPath, ...), 73-131: one solve *)
(* per pose, in the order of viewsPerPoseId.                               *)
(***************************************************************************)
MaxPoses == 2

NoFile == [exists |-> FALSE, img |-> EmptyImage]

NoAmbiant == [present |-> FALSE, img |-> EmptyImage]

\* 94-107: the loop over the views of a pose, from view t on.
RECURSIVE ViewsLoop(_, _, _, _, _)
ViewsLoop(views, t, pose, list, path) ==
    IF t > Len(views) THEN [imageList |-> list, pathToAmbiant |-> path]
    ELSE IF ~icontains(views[t].stem, Ambiant)
         THEN ViewsLoop(views, t + 1, pose, Append(list, t), path)
         ELSE IF removeAmbiant
              THEN ViewsLoop(views, t + 1, pose, list, <<pose, t>>)
              ELSE ViewsLoop(views, t + 1, pose, list, path)

\* Pose j: n lit pictures of the scene, with an "ambiant" view before them
\* or an "0_AMbiant" view after them or neither, and a mask file, which
\* excludes the pixels of excluded, for the poses of even place.
PoseOf(j, n, ambiantView, excluded) ==
    LET lit == V([i \in 1..n |->
                    [stem |-> LitStem(i),
                     img |-> Scene(MaxRows, MaxCols, {}, "gray")]])
        dark(stem) == <<[stem |-> stem, img |-> Uniform(MaxRows, MaxCols, 1)]>>
    IN  [views |-> IF ambiantView = "first" THEN dark(Ambiant) \o lit
                   ELSE IF ambiantView = "last"
                        THEN lit \o dark(<<"0", "_", "A", "M">> \o
                                         <<"b", "i", "a", "n", "t">>)
                        ELSE lit,
         maskFile |-> IF j % 2 = 0
                      THEN [exists |-> TRUE,
                            img |-> MaskImage(MaxRows, MaxCols, excluded)]
                      ELSE NoFile]

\* <<number of lit pictures, place of the "ambiant" view>>
PoseKinds == {1, MaxImages} \X {"none", "first", "last"}

\* The light folder: light_intensities.txt is missing, or holds a line for
\* every picture of the largest pose, or one line less.
LightFolders ==
    {NoLightData} \cup
    {[opens |-> TRUE, lines |-> n] : n \in {MaxImages - 1, MaxImages}}

InitPoses ==
    /\ pc = "pose"
    /\ \E np \in 1..MaxPoses : \E kinds \in [1..np -> PoseKinds] :
       \E excluded \in {{0}, 0..(MaxRows * MaxCols - 1)} :
          viewsPerPoseId = V([j \in 1..np |->
                                PoseOf(j, kinds[j][1], kinds[j][2], excluded)])
    /\ removeAmbiant \in BOOLEAN
    /\ lightData \in LightFolders
    /\ isRobust \in BOOLEAN
    /\ downscale \in Downscales
    /\ posesIt = 0 /\ pathToAmbiant = NoPath /\ outputFiles = << >>
    /\ maskFile = NoFile
    /\ mask = EmptyImage
    /\ pictures = << >>
    /\ nbImages = 0
    /\ imageList = << >>
    /\ intList = << >>
    /\ lightMat = << >>
    /\ ambiant = NoAmbiant
    /\ SolveIdle
    /\ arg = NoCall /\ res = NoCall
    /\ cout = << >>

\* 89-107 for the next pose: imageList and pathToAmbiant from the views of
\* the pose.  pathToAmbiant is declared before the loop (81) and assigned
\* only here, for an "ambiant" view when removeAmbiant is set.  The locals
\* of the previous solve are gone; normals and albedo are the caller's.
PoseViews ==
    /\ pc = "pose"
    /\ posesIt < Len(viewsPerPoseId)
    /\ posesIt' = posesIt + 1
    /\ \E pose \in {viewsPerPoseId[posesIt + 1]} :
       \E found \in {ViewsLoop(pose.views, 1, posesIt + 1, << >>,
                               pathToAmbiant)} :
       \E path \in {found.pathToAmbiant} :
          /\ pathToAmbiant' = path
          /\ ambiant' = IF path = NoPath THEN NoAmbiant
                        ELSE [present |-> TRUE,
                              img |-> viewsPerPoseId[path[1]].views[path[2]].img]
          /\ imageList' = V([i \in 1..Len(found.imageList) |->
                                pose.views[found.imageList[i]].stem])
          /\ pictures' = V([i \in 1..Len(found.imageList) |->
                               pose.views[found.imageList[i]].img])
          /\ nbImages' = Len(found.imageList)
          /\ maskFile' = pose.maskFile
    /\ intList' = << >>
    /\ lightMat' = << >>
    /\ mask' = EmptyImage
    /\ hasMask' = FALSE /\ indexes' = << >> /\ maskSize' = 0
    /\ pictRows' = 0 /\ pictCols' = 0
    /\ imMat' = << >> /\ imMat_gray' = << >>
    /\ normalsVect' = << >> /\ albedoVect' = << >> /\ M_channel' = << >>
    /\ E' = << >> /\ W' = << >> /\ k' = 0
    /\ pc' = "lightData"
    /\ UNCHANGED <<isRobust, downscale, outputs, calls, console,
                   viewsPerPoseId, removeAmbiant, lightData, outputFiles>>

\* 109-119 with a light folder: loadPSData.  loadLightIntensities throws
\* std::runtime_error when the file does not open; otherwise intList holds
\* every line of the file and lightMat the first directions.
PoseLightData ==
    /\ pc = "lightData"
    /\ IF lightData.opens
       THEN /\ intList' = V([i \in 1..lightData.lines |-> Gray(i)])
            /\ lightMat' = LightRig(nbImages, 3)
            /\ pc' = "loadMask"
       ELSE /\ UNCHANGED <<intList, lightMat>>
            /\ pc' = "runtime_error"
    /\ UNCHANGED <<mask, pictures, maskFile, nbImages, imageList, ambiant,
                   isRobust, downscale, selection, observations, estimates, refiner,
                   outputs, calls, console, batch>>

\* 128-129: the results of the pose are written, and the loop goes on.
PoseWrite ==
    /\ pc = "done"
    /\ posesIt > 0
    /\ outputFiles' = Append(outputFiles,
                             [poseId |-> posesIt, normals |-> normals,
                              albedo |-> albedo, mask |-> mask])
    /\ pc' = IF posesIt < Len(viewsPerPoseId) THEN "pose" ELSE "end"
    /\ UNCHANGED <<mask, pictures, inputs, selection, observations, estimates,
                   refiner, outputs, calls, console, viewsPerPoseId,
                   removeAmbiant, lightData, posesIt, pathToAmbiant>>

\* There is no try block in 73-131: an exception thrown for a pose leaves
\* the loop and the function.
PoseThrows ==
    /\ pc \in {"runtime_error", "out_of_range"}
    /\ posesIt > 0
    /\ pc' = "unwound"
    /\ UNCHANGED <<mask, pictures, inputs, selection, observations, estimates,
                   refiner, outputs, calls, console, batch>>

NextPoses ==
    \/ PoseViews
    \/ PoseLightData
    \/ Next
    \/ PoseWrite
    \/ PoseThrows

SpecPoses == InitPoses /\ [][NextPoses]_vars

(***************************************************************************)
(* The functions called on their own: getIndMask, image2PsMatrix, shrink   *)
(* and median, each on arguments drawn from bounded sets.  arg holds the   *)
(* arguments of the call, res what the call has written.                   *)
(***************************************************************************)
\* Masks of R x C pixels: the pixels of sel hold high, the others low.
MaskOf(R, C, sel, low, high) ==
    Img(R, C, [p \in Pixels(R, C) |->
                  IF LinearIndex(p, R) \in sel THEN high ELSE low])

\* <<low, high>>: 0.7 and 0.725, 0.0 and 1.0.
MaskLevels == {<<MaskThreshold, MaskThreshold + 1>>, <<0, 40>>}

Masks(R, C) ==
    {MaskOf(R, C, sel, lv[1], lv[2]) :
        sel \in SUBSET (0..(R * C - 1)), lv \in MaskLevels}

AllShapes == (1..MaxRows) \X (1..MaxCols)

\* A picture whose pixels all differ: pixel (i, j) holds (i, j, 1).
Tagged(R, C) == Img(R, C, [p \in Pixels(R, C) |-> <<Q(p[1]), Q(p[2]), ROne>>])

\* The halves -MaxVal, ..., -1/2, 0, 1/2, ..., MaxVal.
Halves == {Rat(n, 2) : n \in (-2 * MaxVal)..(2 * MaxVal)}

\* The vector of the integers f[1], ..., f[len].
VectorOf(f, len) == V([i \in 1..len |-> S(Q(f[i]))])

\* A light of the "lights" tree: its name, and the three values of its
\* "intensity" and of its "direction".
JsonLight(name, j) ==
    [name |-> name, intensity |-> Gray(j), direction |-> <<Q(j), Q(0), Q(1)>>]

\* The loop over the lights for one image stem (IO 146-166).  Every light
\* whose name the stem contains is taken: its intensities are pushed and
\* its direction is stored at row lineNumber, which is then incremented.  A
\* row at or beyond lightMat.rows() is a write outside the matrix.
RECURSIVE LightsLoop(_, _, _, _)
LightsLoop(stem, lights, t, st) ==
    IF t > Len(lights) THEN st
    ELSE IF icontains(stem, lights[t].name)
         THEN LightsLoop(stem, lights, t + 1,
                  [intList |-> Append(st.intList, lights[t].intensity),
                   lightMat |->
                       IF st.lineNumber < Len(st.lightMat)
                       THEN [st.lightMat EXCEPT ![st.lineNumber + 1] =
                                                   lights[t].direction]
                       ELSE st.lightMat,
                   outside |->
                       IF st.lineNumber < Len(st.lightMat)
                       THEN st.outside
                       ELSE Append(st.outside, st.lineNumber),
                   lineNumber |-> st.lineNumber + 1])
         ELSE LightsLoop(stem, lights, t + 1, st)

\* The loop over the image list (IO 142-168).
RECURSIVE ImagesLoop(_, _, _, _)
ImagesLoop(stems, lights, t, st) ==
    IF t > Len(stems) THEN st
    ELSE ImagesLoop(stems, lights, t + 1, LightsLoop(stems[t], lights, 1, st))

buildLigtMatFromJSON(lights, stems, matrix, intensities) ==
    ImagesLoop(stems, lights, 1,
               [intList |-> intensities, lightMat |-> matrix,
                outside |-> << >>, lineNumber |-> 0])

\* Image stems and light names of the JSON calls.
StemSamples == {<<"0", "1">>, <<"1", "2">>, <<"a", "1">>}
NameSamples == {<<"1">>, <<"2">>, <<"A">>}

\* The sequences of one to most distinct elements of set.
Distinct(set, most) ==
    UNION {{s \in [1..len -> set] : \A a, b \in 1..len : s[a] = s[b] => a = b} :
              len \in 1..most}

\* "mask"
MaskMarker == <<"m", "a", "s", "k">>

\* a < b of two std::string.
RECURSIVE compareFunction(_, _)
compareFunction(a, b) ==
    IF b = << >> THEN FALSE
    ELSE IF a = << >> THEN TRUE
    ELSE IF a[1] = b[1] THEN compareFunction(Tail(a), Tail(b))
    ELSE Code(a[1]) < Code(b[1])

\* std::sort of distinct names with compareFunction.
RECURSIVE SortNames(_)
SortNames(names) ==
    IF names = {} THEN << >>
    ELSE LET least == CHOOSE a \in names :
                         \A b \in names \ {a} : compareFunction(a, b)
         IN  <<least>> \o SortNames(names \ {least})

\* getPicturesNames (PS 397-420): the files of the folder whose stem holds
\* neither "mask" nor "ambiant" and whose extension is supported, sorted.
getPicturesNames(folder) ==
    SortNames({file.stem : file \in
                  {g \in folder : /\ ~icontains(g.stem, MaskMarker)
                                  /\ ~icontains(g.stem, Ambiant)
                                  /\ g.supported}})

\* The loop 57-64 over imageList: the last name that holds "ambiant".
RECURSIVE AmbiantLoop(_, _, _)
AmbiantLoop(list, t, path) ==
    IF t > Len(list) THEN path
    ELSE AmbiantLoop(list, t + 1,
                     IF icontains(list[t], Ambiant) THEN list[t] ELSE path)

\* PS 32-67: the image list and the pathToAmbiant that the folder entry
\* point passes to the solve.
FolderEntry(folder, remove) ==
    LET list == getPicturesNames(folder)
    IN  [imageList |-> list,
         pathToAmbiant |-> IF remove THEN AmbiantLoop(list, 1, << >>)
                           ELSE << >>]

\* The files a picture folder may hold: pictures, ambient pictures, a mask
\* and a file that is no picture.
FolderFiles ==
    {[stem |-> <<"0", "1">>, supported |-> TRUE],
     [stem |-> <<"0", "2">>, supported |-> TRUE],
     [stem |-> <<"0", "3">>, supported |-> FALSE],
     [stem |-> Ambiant, supported |-> TRUE],
     [stem |-> <<"0", "_", "A", "M", "b", "i", "a", "n", "t">>,
      supported |-> TRUE],
     [stem |-> MaskMarker, supported |-> TRUE]}

\* A text file of the light data: its well-formed lines, and whether the
\* last of them ends with a newline.  The values "stream >> x >> ..."
\* leaves after each getline of "while(!eof)": one tuple per line; after
\* the last newline, or in a file without any line, getline yields an empty
\* line, the extraction fails and the variables keep what they held, the
\* values of the line before or nothing assigned.
Getlines(file, width) ==
    IF file.newline \/ file.lines = << >>
    THEN Append(file.lines,
                IF file.lines = << >> THEN V([c \in 1..width |-> Uninit])
                ELSE file.lines[Len(file.lines)])
    ELSE file.lines

\* loadLightIntensities (IO 20-50): one entry per getline, the last popped.
loadLightIntensities(file, intensities) ==
    LET read == Getlines(file, 3)
    IN  intensities \o SubSeq(read, 1, Len(read) - 1)

\* convertionMatrix times (x, y, z).
Converted(convertionMatrix, line) ==
    V([r \in 1..3 |->
          RAdd(RAdd(RMul(convertionMatrix[r][1], line[1]),
                    RMul(convertionMatrix[r][2], line[2])),
               RMul(convertionMatrix[r][3], line[3]))])

\* The while loop of loadLightDirections (IO 69-85) and of loadLightHS
\* (IO 108-128): the tuple of getline t is stored at row lineNumber when
\* lineNumber < lightMat.rows().
RECURSIVE RowsLoop(_, _, _, _)
RowsLoop(rows, t, lineNumber, matrix) ==
    IF t > Len(rows) THEN matrix
    ELSE IF lineNumber < Len(matrix)
         THEN RowsLoop(rows, t + 1, lineNumber + 1,
                       [matrix EXCEPT ![lineNumber + 1] =
                           V([c \in 1..Len(matrix[lineNumber + 1]) |->
                                 IF c <= Len(rows[t]) THEN rows[t][c]
                                 ELSE matrix[lineNumber + 1][c]])])
         ELSE RowsLoop(rows, t + 1, lineNumber, matrix)

loadLightDirections(file, convertionMatrix, matrix) ==
    LET read == Getlines(file, 3)
    IN  RowsLoop(V([t \in 1..Len(read) |->
                       Converted(convertionMatrix, read[t])]), 1, 0, matrix)

\* x, -y, -z, then the six other values of the line.
loadLightHS(file, matrix) ==
    LET read == Getlines(file, 9)
    IN  RowsLoop(V([t \in 1..Len(read) |->
                       V([c \in 1..9 |-> IF c \in {2, 3} THEN RNeg(read[t][c])
                                         ELSE read[t][c]])]), 1, 0, matrix)

\* loadPSData (PS 368-395) for a folder that holds the three text files.
loadPSData(folder, HS_order, intensities, matrix) ==
    [intList |-> loadLightIntensities(folder.intensities, intensities),
     lightMat |-> IF HS_order = 0
                  THEN loadLightDirections(folder.directions,
                                           folder.convertionMatrix, matrix)
                  ELSE IF HS_order = 2 THEN loadLightHS(folder.directionsHS, matrix)
                  ELSE matrix]

\* The 3x3 identity, and a matrix that turns the y and z axes over.
Identity3 == V([r \in 1..3 |-> V([c \in 1..3 |-> IF r = c THEN ROne ELSE RZero])])
Turned3 ==
    V([r \in 1..3 |->
          V([c \in 1..3 |-> IF r # c THEN RZero
                            ELSE IF r = 1 THEN ROne ELSE RNeg(ROne)])])

\* A text file of count lines of width values: line j starts with j.
TextFile(count, width, newline) ==
    [lines |-> V([j \in 1..count |->
                    V([c \in 1..width |-> IF c = 1 THEN Q(j) ELSE Q(c - 1)])]),
     newline |-> newline]

\* The values of HS_order the command line takes.
Orders == {0, 1, 2}

\* main_RTI_PS.cpp 106-111: std::string::compare is 0 for equal strings.
compare(a, b) == IF a = b THEN 0 ELSE 1

LightDataOfRTI(pathToLightData, inputPath, isDirectory) ==
    IF compare(pathToLightData, << >>) # 0 /\ isDirectory
    THEN [pathToLightData |-> inputPath, warned |-> TRUE]
    ELSE [pathToLightData |-> pathToLightData, warned |-> FALSE]

\* Normals with rational entries: the zero vector and unit vectors.
NormalSamples ==
    {<<RZero, RZero, RZero>>,
     <<ROne, RZero, RZero>>, <<RNeg(ROne), RZero, RZero>>,
     <<RZero, ROne, RZero>>, <<RZero, RNeg(ROne), RZero>>,
     <<RZero, RZero, ROne>>, <<RZero, RZero, RNeg(ROne)>>,
     <<Rat(3, 5), Rat(-4, 5), RZero>>, <<RZero, Rat(3, 5), Rat(4, 5)>>}

InitCalls ==
    /\ pc = "call"
    /\ \/ \E shape \in AllShapes : \E m \in Masks(shape[1], shape[2]) :
             arg = [f |-> "getIndMask", mask |-> m, indexes |-> << >>]
       \/ \E shape \in AllShapes :
             \E m \in Masks(shape[1], shape[2]) \cup {SentinelMask},
                im \in {Tagged(shape[1], shape[2]),
                         Scene(shape[1], shape[2], {}, "gray")} :
             arg = [f |-> "image2PsMatrix", imageIn |-> im, mask |-> m]
       \/ \E x1 \in Halves, x2 \in Halves, t \in {h \in Halves : h.n >= 0} :
             arg = [f |-> "shrink", mat |-> <<<<x1, x2>>>>, rho |-> t,
                    E |-> NewMat(1, 2, Q(MaxVal + 1))]
       \/ \E len \in 1..MaxLen : \E f \in [1..len -> (-1)..MaxVal] :
             arg = [f |-> "median", d |-> VectorOf(f, len)]
       \/ \E n1 \in NormalSamples, n2 \in NormalSamples :
             arg = [f |-> "convertNormalMap2png",
                    normalsIm |-> Img(1, 2, <<0, 0>> :> n1 @@ <<0, 1>> :> n2)]
       \/ \E folder \in SUBSET FolderFiles, remove \in BOOLEAN :
             arg = [f |-> "photometricStereo", folder |-> folder,
                    removeAmbiant |-> remove]
       \/ \E order \in Orders, count \in 0..(MaxImages + 1),
             newline \in BOOLEAN, rows \in 1..MaxImages,
             matrix \in {Identity3, Turned3} :
             arg = [f |-> "loadPSData", HS_order |-> order,
                    folder |-> [intensities |-> TextFile(count, 3, newline),
                                directions |-> TextFile(count, 3, newline),
                                directionsHS |-> TextFile(count, 9, newline),
                                convertionMatrix |-> matrix],
                    intList |-> << >>,
                    lightMat |-> NewMat(rows, IF order = 2 THEN 9 ELSE 3,
                                        Uninit)]
       \/ \E given \in {<< >>, <<"k">>}, isDirectory \in BOOLEAN :
             arg = [f |-> "aliceVision_main", pathToLightData |-> given,
                    inputPath |-> <<"i", "n">>, isDirectory |-> isDirectory]
       \/ \E stems \in Distinct(StemSamples, MaxImages),
             names \in Distinct(NameSamples, 2) :
             arg = [f |-> "buildLigtMatFromJSON",
                    lights |-> V([j \in 1..Len(names) |->
                                    JsonLight(names[j], j)]),
                    imageList |-> V(stems),
                    lightMat |-> NewMat(Len(stems), 3, Uninit),
                    intList |-> << >>]
    /\ res = NoCall
    /\ maskFile = [exists |-> FALSE, img |-> EmptyImage]
    /\ mask = EmptyImage
    /\ pictures = << >>
    /\ nbImages = 0
    /\ imageList = << >>
    /\ intList = << >>
    /\ lightMat = << >>
    /\ ambiant = [present |-> FALSE, img |-> EmptyImage]
    /\ isRobust = FALSE
    /\ downscale = 1
    /\ SolveIdle
    /\ BatchIdle
    /\ cout = << >>

Returned(result) ==
    /\ res' = result
    /\ pc' = "returned"
    /\ UNCHANGED <<mask, pictures, inputs, selection, observations, estimates,
                   refiner, outputs, arg, console, batch>>

CallGetIndMask ==
    /\ pc = "call"
    /\ arg.f = "getIndMask"
    /\ Returned([f |-> "getIndMask",
                 indexes |-> getIndMask(arg.mask, arg.indexes)])

CallImage2PsMatrix ==
    /\ pc = "call"
    /\ arg.f = "image2PsMatrix"
    /\ Returned([f |-> "image2PsMatrix",
                 imageOut |-> image2PsMatrix(arg.imageIn, arg.mask)])

CallShrink ==
    /\ pc = "call"
    /\ arg.f = "shrink"
    /\ Returned([f |-> "shrink", E |-> shrink(arg.mat, arg.rho, arg.E)])

\* d is passed by const reference and copied into aux before the sort.
CallMedian ==
    /\ pc = "call"
    /\ arg.f = "median"
    /\ Returned([f |-> "median", d |-> arg.d, median |-> median(arg.d)])

CallConvertNormalMap2png ==
    /\ pc = "call"
    /\ arg.f = "convertNormalMap2png"
    /\ \E wraps \in BOOLEAN :
          Returned([f |-> "convertNormalMap2png",
                    normalsImPNG |-> convertNormalMap2png(arg.normalsIm, wraps)])

\* A write outside lightMat is outside Eigen's contract: a build with
\* assertions stops at it, another writes past the matrix and goes on.
CallBuildLigtMatFromJSON ==
    /\ pc = "call"
    /\ arg.f = "buildLigtMatFromJSON"
    /\ \E out \in {buildLigtMatFromJSON(arg.lights, arg.imageList,
                                        arg.lightMat, arg.intList)} :
       \E asserts \in BOOLEAN :
          Returned([f |-> "buildLigtMatFromJSON",
                    aborted |-> asserts /\ out.outside # << >>,
                    intList |-> out.intList, lightMat |-> out.lightMat,
                    outside |-> out.outside, lineNumber |-> out.lineNumber])

\* The solve subtracts the picture at pathToAmbiant when the stem of that
\* path holds "ambiant" (PS 181, 206).
CallPhotometricStereo ==
    /\ pc = "call"
    /\ arg.f = "photometricStereo"
    /\ \E passed \in {FolderEntry(arg.folder, arg.removeAmbiant)} :
          Returned([f |-> "photometricStereo",
                    imageList |-> passed.imageList,
                    pathToAmbiant |-> passed.pathToAmbiant,
                    subtracts |-> icontains(passed.pathToAmbiant, Ambiant)])

CallLoadPSData ==
    /\ pc = "call"
    /\ arg.f = "loadPSData"
    /\ \E out \in {loadPSData(arg.folder, arg.HS_order, arg.intList,
                              arg.lightMat)} :
          Returned([f |-> "loadPSData", intList |-> out.intList,
                    lightMat |-> out.lightMat])

\* The light-data path that aliceVision_main passes to RTI.
CallAliceVisionMain ==
    /\ pc = "call"
    /\ arg.f = "aliceVision_main"
    /\ \E out \in {LightDataOfRTI(arg.pathToLightData, arg.inputPath,
                                  arg.isDirectory)} :
          Returned([f |-> "aliceVision_main",
                    pathToLightData |-> out.pathToLightData,
                    warned |-> out.warned])

NextCalls ==
    \/ CallLoadPSData
    \/ CallAliceVisionMain
    \/ CallPhotometricStereo
    \/ CallBuildLigtMatFromJSON
    \/ CallGetIndMask
    \/ CallImage2PsMatrix
    \/ CallShrink
    \/ CallMedian
    \/ CallConvertNormalMap2png

SpecCalls == InitCalls /\ [][NextCalls]_vars

(***************************************************************************)
(* Properties of the functions called on their own (SpecCalls).            *)
(***************************************************************************)
\* C1: for every mask of R rows and C columns, getIndMask returns exactly
\* the linear indices col*R + row of the pixels whose value is strictly
\* greater than 0.7 (28 fortieths), each once and in ascending order; a
\* pixel at or below 0.7 never appears.
C1_IndexesAreTheSelectedPixels ==
    (pc = "returned" /\ res.f = "getIndMask") =>
        LET m == arg.mask
            ix == res.indexes
            above == {p \in Pixels(m.rows, m.cols) : m.px[p] > 28}
        IN  /\ \A n \in 1..(Len(ix) - 1) : ix[n] < ix[n + 1]
            /\ {ix[n] : n \in 1..Len(ix)} = {p[2] * m.rows + p[1] : p \in above}

\* A mask of several rows and columns with pixels at exactly 0.7 and at
\* least two pixels above it has been scanned.
C1_Witness ==
    /\ pc = "returned"
    /\ res.f = "getIndMask"
    /\ arg.mask.rows > 1
    /\ arg.mask.cols > 1
    /\ Len(res.indexes) > 1
    /\ \E p \in Pixels(arg.mask.rows, arg.mask.cols) : arg.mask.px[p] = 28

\* C3: for a mask of the dimensions of the image, image2PsMatrix writes as
\* many columns as getIndMask lists indices for that mask, and column n
\* holds the three channels of the pixel whose linear index is indexes[n].
C3_ColumnsFollowIndexes ==
    (/\ pc = "returned"
     /\ res.f = "image2PsMatrix"
     /\ arg.mask.rows = arg.imageIn.rows
     /\ arg.mask.cols = arg.imageIn.cols) =>
        LET ix == getIndMask(arg.mask, << >>)
            R == arg.imageIn.rows
        IN  /\ Len(res.imageOut) = Len(ix)
            /\ \A n \in 1..Len(ix) :
                  res.imageOut[n] = arg.imageIn.px[<<ix[n] % R, ix[n] \div R>>]

\* C8: for every entry x and threshold t >= 0, shrink writes
\* sign(x) * max(|x| - t, 0) to the same entry of E: 0 for x = 0 and for
\* |x| <= t, never of the sign opposite to x, and of a magnitude that does
\* not decrease as |x| grows.
C8_ShrinkIsSoftThreshold ==
    (pc = "returned" /\ res.f = "shrink") =>
        LET t == arg.rho
            x(j) == arg.mat[1][j]
            y(j) == res.E[1][j]
            excess(j) == RSub(RAbs(x(j)), t)
            expected(j) == IF RGt(excess(j), RZero)
                           THEN RMul(Q(Sign(x(j).n)), excess(j))
                           ELSE RZero
        IN  /\ Len(res.E) = 1 /\ Len(res.E[1]) = 2
            /\ \A j \in 1..2 :
                  /\ y(j) = expected(j)
                  /\ (x(j) = RZero) => (y(j) = RZero)
                  /\ ~RGt(RAbs(x(j)), t) => (y(j) = RZero)
                  /\ Sign(y(j).n) * Sign(x(j).n) >= 0
            /\ \A i \in 1..2, j \in 1..2 :
                  ~RGt(RAbs(x(i)), RAbs(x(j))) => ~RGt(RAbs(y(i)), RAbs(y(j)))

\* A negative entry beyond a positive threshold has been shrunk next to a
\* non-zero entry within the threshold.
C8_Witness ==
    /\ pc = "returned"
    /\ res.f = "shrink"
    /\ arg.rho.n > 0
    /\ arg.mat[1][1].n < 0
    /\ RGt(RAbs(arg.mat[1][1]), arg.rho)
    /\ res.E[1][1].n < 0
    /\ arg.mat[1][2].n # 0
    /\ ~RGt(RAbs(arg.mat[1][2]), arg.rho)

\* C9: for every non-empty vector, median returns the middle element of the
\* sorted values when the length is odd and the average of the two middle
\* sorted elements when it is even, and leaves the vector unchanged.
C9_MedianIsMiddleOrAverage ==
    (pc = "returned" /\ res.f = "median") =>
        LET d == arg.d
            size == Len(d)
            val(i) == d[i].c.n
            below(v) == Cardinality({i \in 1..size : val(i) < v})
            upTo(v) == Cardinality({i \in 1..size : val(i) <= v})
            \* the n-th smallest value
            nth(n) == CHOOSE v \in {val(i) : i \in 1..size} :
                          below(v) < n /\ n <= upTo(v)
        IN  /\ res.d = arg.d
            /\ IF size % 2 = 1
               THEN res.median = S(Q(nth((size + 1) \div 2)))
               ELSE res.median = S(Rat(nth(size \div 2) + nth(size \div 2 + 1), 2))

(***************************************************************************)
(* Properties of the solve (Spec).                                         *)
(***************************************************************************)
\* C2: when the mask file does not exist, loadMask raises no error and
\* gives the 1x1 sentinel, and the solve takes every one of the R*C pixels
\* of the decoded pictures as active with the identity mapping: observation column n is the pixel
\* of linear index n, and every pixel of both result maps is written from
\* the column of its own index.
C2_MissingMaskSelectsEveryPixel ==
    ~maskFile.exists =>
        /\ pc # "aborted"
        /\ (pc # "loadMask") => (mask = SentinelMask)
        /\ (pc \notin {"loadMask", "select"}) =>
              /\ ~hasMask
              /\ indexes = << >>
              /\ maskSize = pictRows * pictCols
        /\ (pc \in {"read", "normalize"}) =>
              /\ pictRows = Decoded(pictures[1]).rows
              /\ pictCols = Decoded(pictures[1]).cols
        /\ (pc = "normalize") =>
              \A i \in 1..nbImages, n \in 0..(maskSize - 1), ch \in 1..3 :
                 LET p == <<n % pictRows, n \div pictRows>>
                     read == Decoded(pictures[i]).px[p][ch]
                     lit == IF ambiant.present
                            THEN RSub(read, Decoded(ambiant.img).px[p][ch])
                            ELSE read
                 IN  imMat[3 * (i - 1) + ch][n + 1] = RDiv(lit, intList[i][ch])
        /\ (pc \in {"robust", "albedo"} \/ (isRobust /\ pc = "assemble")) =>
              \A n \in 1..maskSize, dd \in 1..Len(normalsVect) :
                 normalsVect[dd][n] = NormalizedCol(M_channel, n)[dd]
        /\ (~isRobust /\ pc = "assemble") =>
              \A n \in 1..maskSize, ch \in 1..3 :
                 albedoVect[ch][n] =
                    ColNorm(bdcSvdSolve(lightMat, PixelValuesChannel(ch)), n)
        /\ (pc = "done") =>
              \A p \in Pixels(pictRows, pictCols), ch \in 1..3 :
                 /\ normals.px[p][ch] = normalsVect[ch][p[2] * pictRows + p[1] + 1]
                 /\ albedo.px[p][ch] = albedoVect[ch][p[2] * pictRows + p[1] + 1]

\* A solve without a mask file has returned maps of several rows and
\* columns in which two pixels of one column hold different, finite albedos.
C2_Witness ==
    /\ pc = "done"
    /\ ~maskFile.exists
    /\ pictRows > 1
    /\ pictCols > 1
    /\ SIsFinite(albedo.px[<<0, 1>>][1])
    /\ SIsFinite(albedo.px[<<1, 0>>][1])
    /\ albedo.px[<<0, 1>>][1] # albedo.px[<<1, 0>>][1]

\* The squared length of a 3-vector of numbers c * sqrt(q).
C4_SquaredLength(v) ==
    RAdd(RAdd(RMul(RMul(v[1].c, v[1].c), v[1].q), RMul(RMul(v[2].c, v[2].c), v[2].q)),
         RMul(RMul(v[3].c, v[3].c), v[3].q))

\* C4: in the normal map a solve returns, for light matrices of 3 and of 9
\* columns and in both modes, every pixel holds finite values and is either
\* of unit length or exactly (0, 0, 0).
C4_NormalsUnitOrZero ==
    (pc = "done") =>
        \A p \in Pixels(pictRows, pictCols) :
           LET v == normals.px[p]
           IN  /\ \A ch \in 1..3 : SIsFinite(v[ch])
               /\ \/ \A ch \in 1..3 : v[ch] = SZero
                  \/ C4_SquaredLength(v) = ROne

\* C5: after a solve with a mask, every pixel whose linear index is not in
\* the active list holds zero in the normal map and in the albedo map, in
\* both modes.
C5_UnselectedStayZero ==
    (pc = "done" /\ hasMask) =>
        \A p \in Pixels(pictRows, pictCols) :
           (\A n \in 1..Len(indexes) : indexes[n] # p[2] * pictRows + p[1]) =>
              /\ normals.px[p] = <<SZero, SZero, SZero>>
              /\ albedo.px[p] = <<SZero, SZero, SZero>>

\* Some entry is neither zero nor NaN.
C6_NotAllZero(entries) ==
    \E n \in 1..Len(entries) : entries[n].n # 0

\* Every entry is finite and at most 1, and one entry is 1.
C6_LargestIsOne(entries) ==
    /\ \A n \in 1..Len(entries) :
          IsFinite(entries[n]) /\ ~RGt(entries[n], ROne)
    /\ \E n \in 1..Len(entries) : entries[n] = ROne

C6_SLargestIsOne(entries) ==
    /\ \A n \in 1..Len(entries) :
          SIsFinite(entries[n]) /\ ~SLt(S(ROne), entries[n])
    /\ \E n \in 1..Len(entries) : entries[n] = S(ROne)

\* C6: for every input whose matrices are not all zero (also when the
\* ambient subtraction leaves only negative entries), the division by the
\* global maximum leaves 1 as the largest entry of the colour observation
\* matrix, of the luminance observation matrix and of the final albedo.
C6_LargestEntryIsOne ==
    [][/\ (/\ pc = "normalize"
           /\ pc' = "normals"
           /\ C6_NotAllZero(Flatten(imMat, 1))
           /\ C6_NotAllZero(Flatten(imMat_gray, 1))) =>
              /\ C6_LargestIsOne(Flatten(imMat', 1))
              /\ C6_LargestIsOne(Flatten(imMat_gray', 1))
       /\ (/\ pc = "assemble"
           /\ maskSize > 0
           /\ C6_NotAllZero(Flatten(imMat, 1))) =>
              C6_SLargestIsOne(Flatten(albedoVect', 1))]_vars

\* C7: every channel of every pixel of the returned albedo map is
\* non-negative, in both modes.
C7_AlbedoNonNegative ==
    (pc = "done") =>
        \A p \in Pixels(pictRows, pictCols), ch \in 1..3 :
           ~SLt(albedo.px[p][ch], SZero)

\* C10: the robust loop always terminates: it makes at most 1000 passes
\* (every pass that does not leave the loop adds one to k, which stays
\* below 1000 inside the loop), it stops because the convergence test
\* succeeded or because the pass of index 999 is done, and the step that
\* follows the loop is the one of the normals and of the albedo.
C10_RobustLoopTerminates ==
    /\ [](k <= 1000 /\ ((pc = "iterate") => (k < 1000)))
    /\ [][/\ (pc = "iterate") =>
                \/ pc' = "iterate" /\ k' = k + 1
                \/ /\ pc' = "refined"
                   /\ \/ k = 999 /\ k' = 1000
                      \/ /\ k' = k
                         /\ k > 10
                         /\ EcartSmall(M_channel, M_channel')
          /\ (pc = "refined") => (pc' = "assemble")]_vars

\* A robust solve has left the loop with its budget used up.
C10_Witness ==
    /\ pc = "refined"
    /\ k = 1000

\* The M, E and W updates of one pass of the robust loop have been made.
C11_Updated ==
    LET M == bdcSvdSolve(lightMat, MatSub(MatAdd(imMat_gray, E), MatDiv(W, mu)))
        LM == MatMul(lightMat, M)
        Enew == shrink(MatAdd(MatSub(LM, imMat_gray), MatDiv(W, mu)),
                       RDiv(ROne, mu), E)
    IN  /\ M_channel' = M
        /\ E' = Enew
        /\ W' = MatAdd(W, MatScale(MatSub(MatSub(LM, imMat_gray), Enew), mu))

\* C11: a pass of the robust loop of index k <= 10 never leaves the loop,
\* whatever the relative change of M; a pass of index k > 10 in which the
\* relative change of M in the Frobenius norm is below 0.001 leaves the loop
\* in that same pass (k is not incremented), after its M, E and W updates.
C11_ConvergenceOnlyAfterTen ==
    [][(pc = "iterate") =>
          /\ (k <= 10) => (pc' = "iterate" /\ k' = k + 1)
          /\ (k > 10 /\ EcartSmall(M_channel, M_channel')) =>
                (pc' = "refined" /\ k' = k /\ C11_Updated)]_vars

\* A robust solve has left the loop on convergence in the pass of index 11,
\* the first that may, with a finite M.
C11_Witness ==
    /\ pc = "refined"
    /\ k = 11
    /\ \A i \in 1..Len(M_channel) : \A j \in 1..Len(M_channel[i]) :
          IsFinite(M_channel[i][j])
    /\ maskSize > 0

\* C12: a robust solve whose loop used up its 1000 passes does not fail:
\* the normals are those of the M of the last pass, and the solve has let
\* it be known that it did not converge: after the lines of the mask and of
\* the ambient picture, std::cout holds a line about the loop.
C12_ExhaustionIsTagged ==
    (isRobust /\ k = max_iterations) =>
        /\ pc # "aborted"
        /\ (pc \in {"assemble", "done"}) =>
              \A n \in 1..maskSize, dd \in 1..Len(normalsVect) :
                 normalsVect[dd][CurrentIdx(n) + 1] = NormalizedCol(M_channel, n)[dd]
        /\ (pc = "done") =>
              \E n \in 1..Len(cout) :
                 cout[n] \notin {MsgNoMask, MsgAmbiant, MsgPathToAmbiant}

\* Every channel of every pixel of the picture is zero.
C13_AllZero(img) ==
    \A p \in DOMAIN img.px : \A ch \in 1..3 : img.px[p][ch] = RZero

\* The block of picture i in a solve without an ambient picture.
C13_PlainBlock(i) ==
    image2PsMatrix(intensityScaling(intList[i], Decoded(pictures[i])), mask)

\* C13: with an ambient picture whose every channel is zero, the read loop
\* builds the colour and luminance observation matrices that it builds, for
\* the same pictures, intensities and mask, without an ambient picture.
C13_ZeroAmbientChangesNothing ==
    (pc = "normalize" /\ ambiant.present /\ C13_AllZero(ambiant.img)) =>
        \A i \in 1..nbImages, c \in 1..maskSize :
           /\ \A ch \in 1..3 :
                 imMat[3 * (i - 1) + ch][c] = C13_PlainBlock(i)[c][ch]
           /\ imMat_gray[i][c] =
                 RAdd(RAdd(RMul(C13_PlainBlock(i)[c][1], WeightR),
                           RMul(C13_PlainBlock(i)[c][2], WeightG)),
                      RMul(C13_PlainBlock(i)[c][3], WeightB))

\* The read loop has built matrices with non-zero entries, for several
\* pictures and a mask, with an ambient picture that is zero everywhere.
C13_Witness ==
    /\ pc = "normalize"
    /\ ambiant.present
    /\ C13_AllZero(ambiant.img)
    /\ nbImages > 1
    /\ hasMask
    /\ maskSize > 1
    /\ imMat[1][1] # RZero
    /\ imMat_gray[2][2] # RZero

\* The columns of the light matrix are linearly independent.  The columns
\* of a LightRig are mutually orthogonal: they are independent when none of
\* them is zero.
C14_FullColumnRank(L) ==
    /\ \A d \in 1..Len(L[1]), e \in 1..Len(L[1]) :
          (d # e) => (Dot(Col(L, d), Col(L, e)) = RZero)
    /\ \A d \in 1..Len(L[1]) : SquaredNorm(Col(L, d)) # RZero

\* C14: a solve whose light matrix has not full column rank ends in an
\* error: it computes no normals and returns no maps from such a matrix.
C14_RankDeficientIsRejected ==
    (pc \in {"robust", "albedo", "iterate", "refined", "assemble", "done"}) =>
        C14_FullColumnRank(lightMat)

\* C15: a solve runs only with as many light samples (intensity entries,
\* rows of the light matrix) as pictures: with fewer or more it ends in an
\* error before it builds the observation matrices.
C15_SamplesMatchImages ==
    (pc \in {"normalize", "normals", "robust", "albedo", "iterate", "refined",
             "assemble", "done"}) =>
        /\ Len(intList) = nbImages
        /\ Len(lightMat) = nbImages

\* The matrix has entries, and they are all zero.
C16_IsAllZero(m) ==
    /\ Flatten(m, 1) # << >>
    /\ \A n \in 1..Len(Flatten(m, 1)) : Flatten(m, 1)[n] = RZero

\* C16: when every entry of an observation matrix is zero, the step that
\* divides by the global maximum does not divide: it ends the solve with
\* an error, or it leaves both matrices as they are and says so on
\* std::cout.
C16_AllZeroIsRejected ==
    [][(pc = "normalize" /\ (C16_IsAllZero(imMat) \/ C16_IsAllZero(imMat_gray))) =>
          \/ pc' = "aborted"
          \/ /\ imMat' = imMat
             /\ imMat_gray' = imMat_gray
             /\ Len(cout') > Len(cout)]_vars

\* C17: a solve whose mask selects no pixel does not stop with an error, has
\* an empty active list and observation matrices without columns, and ends
\* with a normal map and an albedo map that are zero everywhere.
C17_EmptySelectionGivesZeroMaps ==
    (hasMask /\ maskSize = 0 /\ pc \notin {"loadMask", "select"}) =>
        /\ pc # "aborted"
        /\ indexes = << >>
        /\ \A r \in 1..Len(imMat) : imMat[r] = << >>
        /\ \A r \in 1..Len(imMat_gray) : imMat_gray[r] = << >>
        /\ (pc = "done") =>
              \A p \in Pixels(pictRows, pictCols) :
                 /\ normals.px[p] = <<SZero, SZero, SZero>>
                 /\ albedo.px[p] = <<SZero, SZero, SZero>>

\* C20: when a solve has returned, the mask of the caller has the
\* dimensions and the values that loadMask gave it before the call, for
\* every downscale factor.
C20_MaskUnchanged ==
    (pc = "done") => mask = loadMask(maskFile.exists, maskFile.img)

(***************************************************************************)
(* Properties of the multi-pose entry point (SpecPoses).                   *)
(***************************************************************************)
\* C18: when an exception thrown while the data of a pose is loaded has
\* ended that pose, every later pose has been solved and its results have
\* been written.
C18_LaterPosesAreWritten ==
    (pc = "unwound") =>
        \A j \in (posesIt + 1)..Len(viewsPerPoseId) :
           \E n \in 1..Len(outputFiles) : outputFiles[n].poseId = j

\* C19: the ambient picture of the solve of a pose is the "ambiant" view of
\* that pose, or there is none: pathToAmbiant names no view of another
\* pose, and a pose without such a view is solved without subtraction.
C19_AmbientIsOfThePose ==
    (posesIt > 0 /\ pc \notin {"pose", "end", "unwound"}) =>
        /\ pathToAmbiant[1] \in {0, posesIt}
        /\ ambiant.present =>
              \E t \in 1..Len(viewsPerPoseId[posesIt].views) :
                 icontains(viewsPerPoseId[posesIt].views[t].stem, Ambiant)

\* C21: convertNormalMap2png encodes a zero normal as (0, 0, 0), and every
\* other normal (x, y, z) as the floors of 255(x+1)/2, 255(-y+1)/2 and
\* 255(-z+1)/2; the channels of a unit normal are in 0..255.
C21_NormalsAreEncoded ==
    (pc = "returned" /\ res.f = "convertNormalMap2png") =>
        \A p \in Pixels(arg.normalsIm.rows, arg.normalsIm.cols) :
           LET n == arg.normalsIm.px[p]
               png == res.normalsImPNG.px[p]
               half(a) == Floor(RDiv(RMul(Q(255), RAdd(a, ROne)), Q(2)))
           IN  IF n = <<RZero, RZero, RZero>>
               THEN png = <<0, 0, 0>>
               ELSE /\ png = <<half(n[1]), half(RNeg(n[2])), half(RNeg(n[3]))>>
                    /\ \A ch \in 1..3 : png[ch] \in 0..255

\* The stem holds the letters a-m-b-i-a-n-t in a row, each in either case.
C22_IsMarked(stem) ==
    \E at \in 0..(Len(stem) - 7) :
       \A n \in 1..7 :
          \/ stem[at + n] = <<"a", "m", "b", "i", "a", "n", "t">>[n]
          \/ stem[at + n] = <<"A", "M", "B", "I", "A", "N", "T">>[n]

C22_IsLit(view) == ~C22_IsMarked(view.stem)

\* C22: while a pose is in progress, imageList holds the stems of the views
\* of the pose that are not marked, in the order of the views and nothing
\* else, and pathToAmbiant names a marked view of the pose exactly when
\* removeAmbiant is set and the pose has one.
C22_ImageListIsTheLitViews ==
    (posesIt > 0 /\ pc \notin {"pose", "end"}) =>
        LET views == viewsPerPoseId[posesIt].views
            lit == SelectSeq(views, C22_IsLit)
        IN  /\ imageList = [i \in 1..Len(lit) |-> lit[i].stem]
            /\ \A i \in 1..Len(imageList) : ~C22_IsMarked(imageList[i])
            /\ (pathToAmbiant[1] = posesIt) =>
                  /\ removeAmbiant
                  /\ C22_IsMarked(views[pathToAmbiant[2]].stem)
            /\ (removeAmbiant /\ Len(lit) < Len(views)) =>
                  pathToAmbiant[1] = posesIt
            /\ ~removeAmbiant => pathToAmbiant = NoPath

\* A pose whose last view is marked with capital letters is in progress
\* after a pose without a marked view, and ambient removal is requested.
C22_Witness ==
    /\ posesIt = 2
    /\ pc = "lightData"
    /\ removeAmbiant
    /\ Len(imageList) > 1
    /\ pathToAmbiant = <<2, Len(viewsPerPoseId[2].views)>>
    /\ Len(viewsPerPoseId[1].views) = 1

\* |x - y| <= 1/1000, for numbers c * sqrt(q) with q = 1.
C23_Near(x, y) ==
    /\ SIsFinite(x)
    /\ x.q = ROne
    /\ ~RLt(Rat(1, 1000), RSub(x.c, y))
    /\ ~RLt(Rat(1, 1000), RSub(y, x.c))

\* C23: for the flat patch under the four lights, without a mask, the
\* solve returns the normal (0, 0, 1) and the albedo of the patch in every
\* channel, within 1/1000, in both modes.
C23_FlatPatchIsRecovered ==
    (pc = "done" /\ lightMat = FourLights /\ ~ambiant.present) =>
        \A p \in Pixels(pictRows, pictCols) :
           /\ C23_Near(normals.px[p][1], RZero)
           /\ C23_Near(normals.px[p][2], RZero)
           /\ C23_Near(normals.px[p][3], ROne)
           /\ \A ch \in 1..3 : C23_Near(albedo.px[p][ch], PatchAlbedo)

\* C24: the refiner starts from the least-squares M with E = L*M - I and
\* W = 0; a pass solves M from I + E - W/mu with the E and W it found, then
\* takes E = shrink(L*M - I + W/mu, 1/mu) with the new M and the W it
\* found, then W = W + mu*(L*M - I - E) with the new M and the new E; it
\* leaves the loop by convergence exactly when k > 10 and the change from
\* the M it found to the new M is small.
C24_RefinerUpdatesInOrder ==
    [][/\ (pc = "robust") =>
             /\ M_channel = bdcSvdSolve(lightMat, imMat_gray)
             /\ M_channel' = M_channel
             /\ E' = MatSub(MatMul(lightMat, M_channel), imMat_gray)
             /\ W' = NewMat(nbImages, maskSize, RZero)
       /\ (pc = "iterate") =>
             \E rhs \in {MatSub(MatAdd(imMat_gray, E), MatDiv(W, mu))} :
             \E residual \in {MatSub(MatMul(lightMat, M_channel'),
                                     imMat_gray)} :
                 /\ M_channel' = bdcSvdSolve(lightMat, rhs)
                 /\ E' = shrink(MatAdd(residual, MatDiv(W, mu)),
                                RDiv(ROne, mu), E)
                 /\ W' = MatAdd(W, MatScale(MatSub(residual, E'), mu))
                 /\ (k' = k) <=>
                       (k > 10 /\ EcartSmall(M_channel, M_channel'))]_vars

\* The refiner has ended after passes in which E and W were not zero.
C24_Witness ==
    /\ pc = "refined"
    /\ k > 10
    /\ maskSize > 0
    /\ E[1][1] # RZero /\ IsFinite(E[1][1])
    /\ W[1][1] # RZero /\ IsFinite(W[1][1])
    /\ IsFinite(M_channel[3][1])

\* Picture i as the read loop hands it to image2PsMatrix when an ambient
\* picture is subtracted: channel ch of pixel p is the reduced picture
\* minus the reduced ambient picture, over channel ch of intList[i].
C25_Lit(i) ==
    LET image == Decoded(pictures[i])
        reference == Decoded(ambiant.img)
    IN  Img(image.rows, image.cols,
            [p \in Pixels(image.rows, image.cols) |->
                V([ch \in 1..3 |->
                      RDiv(RSub(image.px[p][ch], reference.px[p][ch]),
                           intList[i][ch])])])

\* C25: with an ambient picture, the colour block of every picture i holds,
\* for every active pixel and channel, (picture - ambient) / intensity,
\* both pictures reduced by the downscale factor and the intensity taken
\* from intList[i].
C25_AmbientIsSubtractedBeforeScaling ==
    (pc = "normalize" /\ ambiant.present) =>
        \A i \in 1..nbImages :
           LET block == image2PsMatrix(C25_Lit(i), mask)
           IN  \A c \in 1..maskSize, ch \in 1..3 :
                  imMat[3 * (i - 1) + ch][c] = block[c][ch]

\* The read loop has subtracted an ambient picture that is not zero from
\* reduced pictures and divided by an intensity that is not one.
C25_Witness ==
    /\ pc = "normalize"
    /\ ambiant.present
    /\ downscale > 1
    /\ nbImages > 1
    /\ maskSize > 0
    /\ ~C13_AllZero(ambiant.img)
    /\ intList[2][1] # ROne
    /\ imMat[4][1] # RZero
    /\ IsFinite(imMat[4][1])

\* The place in the file of the first light whose name the stem contains
\* without regard to case; 0 when there is none.
C26_FirstMatch(stem, lights) ==
    IF \E t \in 1..Len(lights) : icontains(stem, lights[t].name)
    THEN CHOOSE t \in 1..Len(lights) :
            /\ icontains(stem, lights[t].name)
            /\ \A u \in 1..(t - 1) : ~icontains(stem, lights[u].name)
    ELSE 0

\* The first matches of the images that have one, in list order.
C26_Accepted(stems, lights) ==
    LET Found(t) == t # 0
    IN  SelectSeq([i \in 1..Len(stems) |-> C26_FirstMatch(stems[i], lights)],
                  Found)

\* C26: buildLigtMatFromJSON takes, for each image in list order, only the
\* first light in file order whose name the stem contains; it returns no
\* more intensity entries and written rows than there are images, and
\* entry i and row i are those of the same light.
C26_OnlyTheFirstMatchIsAccepted ==
    (pc = "returned" /\ res.f = "buildLigtMatFromJSON") =>
        LET accepted == C26_Accepted(arg.imageList, arg.lights)
        IN  /\ ~res.aborted
            /\ res.outside = << >>
            /\ Len(res.intList) <= Len(arg.imageList)
            /\ res.lineNumber <= Len(arg.imageList)
            /\ Len(res.intList) = Len(accepted)
            /\ \A i \in 1..Len(accepted) :
                  /\ res.intList[i] = arg.lights[accepted[i]].intensity
                  /\ res.lightMat[i] = arg.lights[accepted[i]].direction

\* C27: for every mask and downscale factor, image2PsMatrix has written,
\* for every picture of the read loop, exactly the maskSize columns the
\* solve allocated: no column at or beyond maskSize.
C27_WrittenColumnsAreMaskSize ==
    (pc = "normalize") =>
        \A i \in 1..nbImages :
           Len(image2PsMatrix(Decoded(pictures[i]), mask)) = maskSize

\* C28: when removeAmbiant is set and the picture folder holds a picture
\* whose stem contains "ambiant", the folder entry point passes the path of
\* such a picture to the solve, which subtracts it, and no name of the
\* image list contains "ambiant".
C28_FolderAmbientIsFound ==
    (/\ pc = "returned"
     /\ res.f = "photometricStereo"
     /\ arg.removeAmbiant
     /\ \E file \in arg.folder :
           file.supported /\ icontains(file.stem, Ambiant)) =>
        /\ \E file \in arg.folder :
              /\ icontains(file.stem, Ambiant)
              /\ res.pathToAmbiant = file.stem
        /\ res.subtracts
        /\ \A n \in 1..Len(res.imageList) :
              ~icontains(res.imageList[n], Ambiant)

\* C29: for every HS_order the entry point takes and every light-data
\* folder, loadPSData returns a lightMat of one row per image and of 3
\* columns (9 for order 2) in which every entry has been assigned.
C29_LightMatIsWritten ==
    (pc = "returned" /\ res.f = "loadPSData") =>
        /\ Len(res.lightMat) = Len(arg.lightMat)
        /\ \A r \in 1..Len(res.lightMat) :
              /\ Len(res.lightMat[r]) = IF arg.HS_order = 2 THEN 9 ELSE 3
              /\ \A c \in 1..Len(res.lightMat[r]) : res.lightMat[r][c] # Uninit

\* C30: the RTI program passes the input path as light-data path exactly
\* when the light-data path it was given is empty and the input path is a
\* directory; a path that is not empty is passed as it was given.
C30_LightDataPathOfRTI ==
    (pc = "returned" /\ res.f = "aliceVision_main") =>
        IF arg.pathToLightData = << >> /\ arg.isDirectory
        THEN res.pathToLightData = arg.inputPath
        ELSE res.pathToLightData = arg.pathToLightData

=============================================================================
